---- MODULE Spec2Model ----
(***************************************************************************)
(* Sparse, ID-addressable graph engine: IDmap (util/IDmap.py), SparseGraph *)
(* and DirectedSparseGraph (graph/sparse.py).                              *)
(*                                                                         *)
(* Python values are records [ty, s]: ty is the Python type and s the      *)
(* characters of the value (of the string itself, or of the repr of a      *)
(* number).  Identifiers stored in an IDmap are always strings, kept as    *)
(* their tuple of characters.  A dict is a sequence of [k, v] entries in   *)
(* insertion order; Python index i is position i + 1 of a sequence.        *)
(***************************************************************************)
EXTENDS Integers, Sequences, FiniteSets, TLC

\* Edge weights passed to add_edge range over 1..MaxWeight.
MaxWeight == 2
\* Longest list passed to the list form of add_id.
MaxListLen == 2

PyStr(s) == [ty |-> "str", s |-> s]
PyInt(s) == [ty |-> "int", s |-> s]
PyFloat(s) == [ty |-> "float", s |-> s]
PyNone == [ty |-> "NoneType", s |-> <<>>]

\* Identifiers handed to the graph: a name and three spellings of the integer one.
NodeIDs ==
  { PyStr(<<"a">>), PyStr(<<"1">>), PyStr(<<"1", ".", "0">>), PyInt(<<"1">>) }

Weights == 1..MaxWeight

\* "None" stands for Python's None, "sum" for an unsupported reduction.
Reductions == {"None", "max", "min", "sum"}

Digit == {"0", "1", "2", "3", "4", "5", "6", "7", "8", "9"}

Max2(x, y) == IF x >= y THEN x ELSE y
Min2(x, y) == IF x <= y THEN x ELSE y

(***************************************************************************)
(* float(ID), num % 1 == 0, str(int(num)) and str(num) on decimal numerals *)
(***************************************************************************)
AllDigits(s) == \A i \in DOMAIN s : s[i] \in Digit

DotPos(s) == {i \in DOMAIN s : s[i] = "."}

\* float() of a string: digits with at most one point and at least one digit.
ParseFloat(s) ==
  LET dots == DotPos(s) IN
  IF Cardinality(dots) = 0
    THEN [ok |-> Len(s) > 0 /\ AllDigits(s), ip |-> s, fp |-> <<>>]
    ELSE IF Cardinality(dots) = 1
      THEN LET d == CHOOSE i \in dots : TRUE
               ip == SubSeq(s, 1, d - 1)
               fp == SubSeq(s, d + 1, Len(s))
           IN [ok |-> AllDigits(ip) /\ AllDigits(fp) /\ Len(ip) + Len(fp) > 0,
               ip |-> ip, fp |-> fp]
      ELSE [ok |-> FALSE, ip |-> <<>>, fp |-> <<>>]

RECURSIVE StripLeadingZeros(_)
StripLeadingZeros(ip) ==
  IF Len(ip) = 0 THEN <<"0">>
  ELSE IF Len(ip) > 1 /\ Head(ip) = "0" THEN StripLeadingZeros(Tail(ip))
  ELSE ip

RECURSIVE StripTrailingZeros(_)
StripTrailingZeros(fp) ==
  IF Len(fp) = 0 THEN <<>>
  ELSE IF fp[Len(fp)] = "0" THEN StripTrailingZeros(SubSeq(fp, 1, Len(fp) - 1))
  ELSE fp

\* The try block of addID: the string under which ID is stored.
Canonical(ID) ==
  LET p == ParseFloat(ID.s) IN
  IF ~p.ok THEN ID.s
  ELSE IF StripTrailingZeros(p.fp) = <<>>
    THEN StripLeadingZeros(p.ip)
    ELSE StripLeadingZeros(p.ip) \o <<".">> \o StripTrailingZeros(p.fp)

(***************************************************************************)
(* IDmap: a record [data, lst]                                             *)
(***************************************************************************)
EmptyIDmap == [data |-> <<>>, lst |-> <<>>]

size(m) == Cardinality(DOMAIN m.data)

\* key in self._data: a key that is not a str equals no stored identifier.
contains(m, key) == key.ty = "str" /\ key.s \in DOMAIN m.data

getitem(m, key) ==
  IF key.ty # "str" THEN [exc |-> "TypeError", idx |-> 0]
  ELSE IF key.s \notin DOMAIN m.data THEN [exc |-> "KeyError", idx |-> 0]
  ELSE [exc |-> "none", idx |-> m.data[key.s]]

\* Mutant of addID: the identifier is stored as it is spelled, without the
\* numeric conversion.
addID_as_spelled(m, ID) ==
  IF ID.ty \notin {"int", "float", "str"} THEN [exc |-> "TypeError", m |-> m]
  ELSE IF contains(m, PyStr(ID.s)) THEN [exc |-> "AssertionError", m |-> m]
  ELSE [exc |-> "none",
        m |-> [data |-> [k \in DOMAIN m.data \cup {ID.s} |->
                           IF k = ID.s THEN size(m) ELSE m.data[k]],
               lst |-> Append(m.lst, ID.s)]]

addID(m, ID) ==
  IF ID.ty \notin {"int", "float", "str"} THEN [exc |-> "TypeError", m |-> m]
  ELSE LET cid == Canonical(ID) IN
       IF contains(m, PyStr(cid)) THEN [exc |-> "AssertionError", m |-> m]
       ELSE [exc |-> "none",
             m |-> [data |-> [k \in DOMAIN m.data \cup {cid} |->
                                IF k = cid THEN size(m) ELSE m.data[k]],
                    lst |-> Append(m.lst, cid)]]

\* Mutant of pop: the identifiers after the removed one are numbered from 0.
pop_renumber_from_zero(m, ID) ==
  IF ~contains(m, ID) THEN [exc |-> "KeyError", m |-> m]
  ELSE LET idx == m.data[ID.s] IN
       [exc |-> "none",
        m |-> [data |-> [k \in DOMAIN m.data \ {ID.s} |->
                           IF m.data[k] > idx THEN m.data[k] - idx - 1 ELSE m.data[k]],
               lst |-> SubSeq(m.lst, 1, idx) \o SubSeq(m.lst, idx + 2, Len(m.lst))]]

\* Mutant of pop: the identifiers after the removed one keep their old index.
pop_no_renumber(m, ID) ==
  IF ~contains(m, ID) THEN [exc |-> "KeyError", m |-> m]
  ELSE LET idx == m.data[ID.s] IN
       [exc |-> "none",
        m |-> [data |-> [k \in DOMAIN m.data \ {ID.s} |-> m.data[k]],
               lst |-> SubSeq(m.lst, 1, idx) \o SubSeq(m.lst, idx + 2, Len(m.lst))]]

\* IDmap.pop
pop(m, ID) ==
  IF ~contains(m, ID) THEN [exc |-> "KeyError", m |-> m]
  ELSE LET idx == m.data[ID.s]
           data1 == [k \in DOMAIN m.data \ {ID.s} |-> m.data[k]]
           lst1 == SubSeq(m.lst, 1, idx) \o SubSeq(m.lst, idx + 2, Len(m.lst))
           moved == idx + 1 .. Len(lst1)
           last_at(k) == CHOOSE p \in moved :
                           lst1[p] = k /\ \A q \in moved : q > p => lst1[q] # k
       IN [exc |-> "none",
           m |-> [data |-> [k \in DOMAIN data1 \cup {lst1[p] : p \in moved} |->
                              IF \E p \in moved : lst1[p] = k
                                THEN last_at(k) - 1 ELSE data1[k]],
                  lst |-> lst1]]

(***************************************************************************)
(* dict as an insertion-ordered sequence of entries                        *)
(***************************************************************************)
Keys(row) == {row[i].k : i \in DOMAIN row}
Has(row, k) == k \in Keys(row)
Get(row, k) == row[CHOOSE i \in DOMAIN row : row[i].k = k].v
Put(row, k, v) ==
  IF Has(row, k)
    THEN [i \in DOMAIN row |-> IF row[i].k = k THEN [k |-> k, v |-> v] ELSE row[i]]
    ELSE Append(row, [k |-> k, v |-> v])
Remove(row, k) == SelectSeq(row, LAMBDA e : e.k # k)

(***************************************************************************)
(* State                                                                   *)
(***************************************************************************)
VARIABLES
  cls,            \* "SparseGraph" or "DirectedSparseGraph"
  weighted,       \* constructor flags of the graph
  directed,
  self_loops,
  idmap,          \* the graph's IDmap
  edge_data,      \* self._edge_data: one dict per node index
  rev_edge_data,  \* self._rev_edge_data (DirectedSparseGraph only, else empty)
  last,           \* the latest call: its name, what it raised, what it returned
                  \* and by how much it changed the size of the IDmap
  file,           \* the lines of the file the latest save() wrote
  hist,           \* history of the writes to each entry [i][j] of edge_data:
                  \* hi (lo) is the largest (smallest) weight written while every
                  \* write to the entry used "max" ("min"), and 0 otherwise
  other,          \* a second graph object of the program (the source of an
                  \* induced subgraph or of a loaded archive, or the graph made
                  \* from it), NoGraph while there is none
  lsc,            \* a LabelsetCollection object, NoLsc while there is none
  par             \* a run of a ParDat wrapper: the parent generator, its
                  \* worker processes, pipes and result queue; NoPar while
                  \* there is none

vars ==
  <<cls, weighted, directed, self_loops, idmap, edge_data, rev_edge_data, last,
    file, hist, other, lsc, par>>

config == <<cls, weighted, directed, self_loops>>

\* The graph object as one value.
graph == [idmap |-> idmap, edge |-> edge_data, rev |-> rev_edge_data]

NoCall == [op |-> "init", exc |-> "none", ret |-> 0, added |-> 0]

\* A graph object other than the current one: its attributes, the attributes
\* (shares) whose object is also the current graph's, and the number of calls
\* (age) that changed either graph since the two exist side by side.
NoGraph ==
  [cls |-> "none", weighted |-> FALSE, directed |-> FALSE, self_loops |-> FALSE,
   idmap |-> EmptyIDmap, edge |-> <<>>, rev |-> <<>>, shares |-> {}, age |-> 0]

\* No LabelsetCollection object: labels is the dict labelset name -> its Info
\* and Labelset properties, entity the dict entity ID -> its Noccur property,
\* both in the order of the underlying ID lists.
NoLsc == [cls |-> "none", labels |-> <<>>, entity |-> <<>>]

\* No run of a ParDat wrapper.
NoPar == [pc |-> "none"]

(***************************************************************************)
(* SparseGraph / DirectedSparseGraph operations on a graph value g         *)
(***************************************************************************)
num_edges(g) ==
  LET RECURSIVE Sum(_)
      Sum(n) == IF n = 0 THEN 0 ELSE Len(g.edge[n]) + Sum(n - 1)
  IN Sum(Len(g.edge))

\* add_id, non-list branch (the DirectedSparseGraph override also grows rev).
add_id(g, node_id) ==
  LET a == addID(g.idmap, node_id) IN
  IF a.exc # "none" THEN [exc |-> a.exc, g |-> g]
  ELSE [exc |-> "none",
        g |-> [idmap |-> a.m,
               edge |-> Append(g.edge, <<>>),
               rev |-> IF cls = "DirectedSparseGraph"
                         THEN Append(g.rev, <<>>) ELSE g.rev]]

\* Mutant of add_id_list: a failing list call restores the graph it started from.
RECURSIVE add_ids_from(_, _, _)
add_ids_from(g0, g, node_ids) ==
  IF node_ids = <<>> THEN [exc |-> "none", g |-> g]
  ELSE LET a == add_id(g, Head(node_ids)) IN
       IF a.exc # "none" THEN [exc |-> a.exc, g |-> g0]
       ELSE add_ids_from(g0, a.g, Tail(node_ids))

add_id_list_rollback(g, node_ids) == add_ids_from(g, g, node_ids)

\* add_id, list branch: element by element, stopping at the first exception.
RECURSIVE add_id_list(_, _)
add_id_list(g, node_ids) ==
  IF node_ids = <<>> THEN [exc |-> "none", g |-> g]
  ELSE LET a == add_id(g, Head(node_ids)) IN
       IF a.exc # "none" THEN a ELSE add_id_list(a.g, Tail(node_ids))

default_add_id(g, node_id) ==
  IF ~contains(g.idmap, node_id) THEN add_id(g, node_id)
  ELSE [exc |-> "none", g |-> g]

\* Mutant of reduce: without a reduction the new weight is added to the stored
\* one.
reduce_accumulate(old_weight, weight, reduction) ==
  IF reduction = "None" THEN old_weight + weight
  ELSE IF old_weight # weight
    THEN IF reduction = "max" THEN Max2(old_weight, weight)
         ELSE IF reduction = "min" THEN Min2(old_weight, weight)
         ELSE weight
    ELSE weight

\* Mutant of reduce: the two reductions exchanged.
reduce_exchanged(old_weight, weight, reduction) ==
  IF old_weight # weight
    THEN IF reduction = "None" THEN weight
         ELSE IF reduction = "max" THEN Min2(old_weight, weight)
         ELSE IF reduction = "min" THEN Max2(old_weight, weight)
         ELSE weight
    ELSE weight

\* The weight _add_edge commits when the entry exists with weight old_weight.
reduce(old_weight, weight, reduction) ==
  IF old_weight # weight
    THEN IF reduction = "None" THEN weight
         ELSE IF reduction = "max" THEN Max2(old_weight, weight)
         ELSE IF reduction = "min" THEN Min2(old_weight, weight)
         ELSE weight
    ELSE weight

\* Mutant of add_edge_data: the mirrored entry gets the weight before reduction.
add_edge_data_raw_mirror(m, store, node_id1, node_id2, weight, reduction) ==
  LET i1 == getitem(m, node_id1)
      i2 == getitem(m, node_id2)
  IN
  IF i1.exc # "none" THEN [exc |-> i1.exc, store |-> store]
  ELSE IF i2.exc # "none" THEN [exc |-> i2.exc, store |-> store]
  ELSE IF ~self_loops /\ i1.idx = i2.idx THEN [exc |-> "none", store |-> store]
  ELSE LET row1 == store[i1.idx + 1]
           w == IF Has(row1, i2.idx)
                  THEN reduce(Get(row1, i2.idx), weight, reduction) ELSE weight
           store1 == [store EXCEPT ![i1.idx + 1] = Put(@, i2.idx, w)]
       IN [exc |-> "none",
           store |-> IF ~directed /\ i1.idx # i2.idx
                       THEN [store1 EXCEPT ![i2.idx + 1] = Put(@, i1.idx, weight)]
                       ELSE store1]

\* _add_edge on the adjacency list store (self._edge_data or self._rev_edge_data).
add_edge_data(m, store, node_id1, node_id2, weight, reduction) ==
  LET i1 == getitem(m, node_id1)
      i2 == getitem(m, node_id2)
  IN
  IF i1.exc # "none" THEN [exc |-> i1.exc, store |-> store]
  ELSE IF i2.exc # "none" THEN [exc |-> i2.exc, store |-> store]
  ELSE IF ~self_loops /\ i1.idx = i2.idx THEN [exc |-> "none", store |-> store]
  ELSE LET row1 == store[i1.idx + 1]
           w == IF Has(row1, i2.idx)
                  THEN reduce(Get(row1, i2.idx), weight, reduction) ELSE weight
           store1 == [store EXCEPT ![i1.idx + 1] = Put(@, i2.idx, w)]
       IN [exc |-> "none",
           store |-> IF ~directed
                       THEN [store1 EXCEPT ![i2.idx + 1] = Put(@, i1.idx, w)]
                       ELSE store1]

\* A later statement of a method body: skipped once an exception is raised.
\* outcome is what the statements before it left, [exc, g].
then_default_add_id(outcome, node_id) ==
  IF outcome.exc # "none" THEN outcome ELSE default_add_id(outcome.g, node_id)

set_edge_data(g, e) == [exc |-> e.exc, g |-> [g EXCEPT !.edge = e.store]]

set_rev_edge_data(g, e) == [exc |-> e.exc, g |-> [g EXCEPT !.rev = e.store]]

\* self._add_edge(node_id1, node_id2, weight, reduction, self._edge_data)
then_add_edge_data(outcome, node_id1, node_id2, weight, reduction) ==
  IF outcome.exc # "none" THEN outcome
  ELSE set_edge_data(outcome.g,
         add_edge_data(outcome.g.idmap, outcome.g.edge, node_id1, node_id2,
                       weight, reduction))

\* self._add_edge(node_id1, node_id2, weight, reduction, self._rev_edge_data)
then_add_rev_edge_data(outcome, node_id1, node_id2, weight, reduction) ==
  IF outcome.exc # "none" THEN outcome
  ELSE set_rev_edge_data(outcome.g,
         add_edge_data(outcome.g.idmap, outcome.g.rev, node_id1, node_id2,
                       weight, reduction))

then_check_reduction(outcome, reduction) ==
  IF outcome.exc # "none" THEN outcome
  ELSE IF reduction \notin {"None", "max", "min"}
    THEN [exc |-> "ValueError", g |-> outcome.g]
    ELSE outcome

\* Mutant of sparse_add_edge: the reduction is validated after the identifiers
\* have been created.
sparse_add_edge_late_check(g, node_id1, node_id2, weight, reduction) ==
  then_add_edge_data(
    then_check_reduction(
      then_default_add_id(default_add_id(g, node_id1), node_id2), reduction),
    node_id1, node_id2, weight, reduction)

\* SparseGraph.add_edge
sparse_add_edge(g, node_id1, node_id2, weight, reduction) ==
  IF reduction \notin {"None", "max", "min"} THEN [exc |-> "ValueError", g |-> g]
  ELSE then_add_edge_data(
         then_default_add_id(default_add_id(g, node_id1), node_id2),
         node_id1, node_id2, weight, reduction)

\* Mutant of directed_add_edge: the reverse store is written with the endpoints
\* in forward order.
directed_add_edge_unswapped(g, node_id1, node_id2, weight, reduction) ==
  then_add_rev_edge_data(
    sparse_add_edge(g, node_id1, node_id2, weight, reduction),
    node_id1, node_id2, weight, reduction)

\* DirectedSparseGraph.add_edge
directed_add_edge(g, node_id1, node_id2, weight, reduction) ==
  then_add_rev_edge_data(
    sparse_add_edge(g, node_id1, node_id2, weight, reduction),
    node_id2, node_id1, weight, reduction)

add_edge(g, node_id1, node_id2, weight, reduction) ==
  IF cls = "DirectedSparseGraph"
    THEN directed_add_edge(g, node_id1, node_id2, weight, reduction)
    ELSE sparse_add_edge(g, node_id1, node_id2, weight, reduction)

\* get_edge: a KeyError of either lookup or of the row is turned into 0.
get_edge(g, node_id1, node_id2) ==
  LET i1 == getitem(g.idmap, node_id1)
      i2 == getitem(g.idmap, node_id2)
  IN
  IF i1.exc = "TypeError" THEN [exc |-> "TypeError", ret |-> 0]
  ELSE IF i1.exc = "KeyError" THEN [exc |-> "none", ret |-> 0]
  ELSE IF i2.exc = "TypeError" THEN [exc |-> "TypeError", ret |-> 0]
  ELSE IF i2.exc = "KeyError" THEN [exc |-> "none", ret |-> 0]
  ELSE IF ~Has(g.edge[i1.idx + 1], i2.idx) THEN [exc |-> "none", ret |-> 0]
  ELSE [exc |-> "none", ret |-> Get(g.edge[i1.idx + 1], i2.idx)]

\* edge_gen run to its end, or to the exception that ends it: the stores as it
\* leaves them and the triples it yielded.  edge_data_copy is a new list of
\* the same dicts, so a pop on edge_data_copy[dst_idx] is a pop on the graph.
RECURSIVE edge_gen_from(_, _, _, _, _)
edge_gen_from(m, store, src_idx, pos, out) ==
  IF src_idx >= Len(store) THEN [exc |-> "none", store |-> store, out |-> out]
  ELSE IF pos > Len(store[src_idx + 1])
    THEN edge_gen_from(m, store, src_idx + 1, 1, out)
  ELSE LET dst_idx == store[src_idx + 1][pos].k IN
       IF ~directed /\ ~Has(store[dst_idx + 1], src_idx)
         THEN [exc |-> "KeyError", store |-> store, out |-> out]
       ELSE LET store1 == IF ~directed
                            THEN [store EXCEPT ![dst_idx + 1] = Remove(@, src_idx)]
                            ELSE store
            IN IF ~Has(store1[src_idx + 1], dst_idx)
                 THEN [exc |-> "KeyError", store |-> store1, out |-> out]
                 ELSE edge_gen_from(m, store1, src_idx, pos + 1,
                        Append(out, [src |-> m.lst[src_idx + 1],
                                     dst |-> m.lst[dst_idx + 1],
                                     weight |-> Get(store1[src_idx + 1], dst_idx)]))

edge_gen(g) == edge_gen_from(g.idmap, g.edge, 0, 1, <<>>)

\* f"{weight:.12f}" of a one-digit whole weight.
Fixed12(weight) ==
  <<CHOOSE d \in Digit :
      d = <<"0", "1", "2", "3", "4", "5", "6", "7", "8", "9">>[weight + 1]>>
    \o <<".">> \o [i \in 1 .. 12 |-> "0"]

\* edglst_writer: the lines written for the triples that were yielded.
edglst_writer(triples, cut_threshold) ==
  LET kept == IF weighted
                THEN SelectSeq(triples, LAMBDA t : t.weight > cut_threshold)
                ELSE triples
  IN [i \in DOMAIN kept |->
        IF weighted
          THEN <<kept[i].src, kept[i].dst, Fixed12(kept[i].weight)>>
          ELSE <<kept[i].src, kept[i].dst>>]

\* save(outpth, "edglst", cut_threshold)
save(g, cut_threshold) ==
  LET e == edge_gen(g) IN
  [exc |-> e.exc, g |-> [g EXCEPT !.edge = e.store],
   lines |-> edglst_writer(e.out, cut_threshold)]

(***************************************************************************)
(* Actions: one call on the graph each                                     *)
(***************************************************************************)
Init ==
  /\ cls \in {"SparseGraph", "DirectedSparseGraph"}
  /\ weighted = TRUE
  /\ directed \in IF cls = "DirectedSparseGraph" THEN {TRUE} ELSE BOOLEAN
  /\ self_loops \in IF cls = "DirectedSparseGraph" THEN {FALSE} ELSE BOOLEAN
  /\ idmap = EmptyIDmap
  /\ edge_data = <<>>
  /\ rev_edge_data = <<>>
  /\ last = NoCall
  /\ file = <<>>
  /\ hist = <<>>
  /\ other = NoGraph
  /\ lsc = NoLsc
  /\ par = NoPar

Commit(g) ==
  /\ idmap' = g.idmap
  /\ edge_data' = g.edge
  /\ rev_edge_data' = g.rev

AddId(node_id) ==
  LET a == add_id(graph, node_id) IN
  /\ Commit(a.g)
  /\ last' = [op |-> "add_id", exc |-> a.exc, ret |-> 0,
               added |-> size(a.g.idmap) - size(idmap)]
  /\ UNCHANGED config

AddIdList(node_ids) ==
  LET a == add_id_list(graph, node_ids) IN
  /\ Commit(a.g)
  /\ last' = [op |-> "add_id_list", exc |-> a.exc, ret |-> 0,
               added |-> size(a.g.idmap) - size(idmap)]
  /\ UNCHANGED config

AddEdge(node_id1, node_id2, weight, reduction) ==
  LET a == add_edge(graph, node_id1, node_id2, weight, reduction) IN
  /\ Commit(a.g)
  /\ last' = [op |-> "add_edge", exc |-> a.exc, ret |-> 0,
               added |-> size(a.g.idmap) - size(idmap)]
  /\ UNCHANGED config

GetEdge(node_id1, node_id2) ==
  LET a == get_edge(graph, node_id1, node_id2) IN
  /\ last' = [op |-> "get_edge", exc |-> a.exc, ret |-> a.ret, added |-> 0]
  /\ UNCHANGED <<config, idmap, edge_data, rev_edge_data>>

Save(cut_threshold) ==
  LET a == save(graph, cut_threshold) IN
  /\ Commit(a.g)
  /\ file' = a.lines
  /\ last' = [op |-> "save", exc |-> a.exc, ret |-> 0, added |-> 0]
  /\ UNCHANGED config

IDLists == UNION {[1..n -> NodeIDs] : n \in 0..MaxListLen}

Next ==
  \/ \E node_id \in NodeIDs \cup {PyNone} : AddId(node_id) /\ UNCHANGED <<file, hist, other, lsc, par>>
  \/ \E node_ids \in IDLists : AddIdList(node_ids) /\ UNCHANGED <<file, hist, other, lsc, par>>
  \/ \E node_id1, node_id2 \in NodeIDs, weight \in Weights, reduction \in Reductions :
       AddEdge(node_id1, node_id2, weight, reduction) /\ UNCHANGED <<file, hist, other, lsc, par>>
  \/ \E node_id1, node_id2 \in NodeIDs : GetEdge(node_id1, node_id2) /\ UNCHANGED <<file, hist, other, lsc, par>>

Spec == Init /\ [][Next]_vars

(***************************************************************************)
(* Properties of the graph under add_id, add_edge and get_edge             *)
(***************************************************************************)
Nodes(store) == 0 .. Len(store) - 1

KnownIDs == {PyStr(k) : k \in DOMAIN idmap.data}

StrIDs == {x \in NodeIDs : x.ty = "str"}

ValidReductions == {"None", "max", "min"}

\* The weight stored at [i][j], 0 when the row or the entry does not exist
\* (every weight written is at least 1).
Entry(store, i, j) ==
  IF i + 1 \in DOMAIN store /\ Has(store[i + 1], j) THEN Get(store[i + 1], j) ELSE 0

\* C1: in an undirected SparseGraph, store[i][j] exists iff store[j][i] exists,
\* both hold the same weight, and get_edge(a,b) = get_edge(b,a) for known ids.
UndirectedSymmetry ==
  (cls = "SparseGraph" /\ ~directed) =>
    /\ \A i, j \in Nodes(edge_data) :
         /\ Has(edge_data[i + 1], j) <=> Has(edge_data[j + 1], i)
         /\ Has(edge_data[i + 1], j) =>
              Get(edge_data[i + 1], j) = Get(edge_data[j + 1], i)
    /\ \A a, b \in KnownIDs : get_edge(graph, a, b) = get_edge(graph, b, a)

\* An undirected graph in which an edge between two distinct nodes has been
\* written by add_edge with the largest weight.
UndirectedSymmetryWitness ==
  /\ cls = "SparseGraph" /\ ~directed
  /\ last.op = "add_edge" /\ last.exc = "none" /\ last.added = 0
  /\ \E i, j \in Nodes(edge_data) : i # j /\ Entry(edge_data, i, j) = MaxWeight

\* C2: in a DirectedSparseGraph the forward store, the reverse store and the
\* IDmap have the same number of rows, rev_store[j][i] exists iff store[i][j]
\* exists, with the same weight, and add_edge(a,b,w) changes no forward entry
\* other than [a][b] (in particular not [b][a]).
ReverseStoreMirror ==
  cls = "DirectedSparseGraph" =>
    /\ Len(edge_data) = size(idmap)
    /\ Len(rev_edge_data) = size(idmap)
    /\ \A i, j \in Nodes(edge_data) :
         /\ Has(rev_edge_data[j + 1], i) <=> Has(edge_data[i + 1], j)
         /\ Has(edge_data[i + 1], j) =>
              Get(rev_edge_data[j + 1], i) = Get(edge_data[i + 1], j)
    /\ \A a, b \in NodeIDs, w \in Weights, r \in Reductions :
         LET res == add_edge(graph, a, b, w, r)
             ia == getitem(res.g.idmap, a)
             ib == getitem(res.g.idmap, b)
         IN \A i, j \in Nodes(res.g.edge) :
              (res.exc # "none" \/ <<i, j>> # <<ia.idx, ib.idx>>) =>
                Entry(res.g.edge, i, j) = Entry(edge_data, i, j)

\* A directed graph holding a -> b but not b -> a.
ReverseStoreMirrorWitness ==
  /\ cls = "DirectedSparseGraph"
  /\ last.op = "add_edge" /\ last.exc = "none"
  /\ \E i, j \in Nodes(edge_data) :
       /\ i # j
       /\ Has(edge_data[i + 1], j) /\ ~Has(edge_data[j + 1], i)
       /\ Has(rev_edge_data[j + 1], i)

\* Position of the first element of a list that add_id rejects: one whose
\* canonical form is already in the map or occurs earlier in the list.
Rejected(m, node_ids) ==
  {p \in DOMAIN node_ids :
     \/ Canonical(node_ids[p]) \in DOMAIN m.data
     \/ \E q \in 1 .. p - 1 : Canonical(node_ids[q]) = Canonical(node_ids[p])}

\* C4: the number of adjacency rows equals idmap.size and every stored neighbor
\* index is in [0, size), also after failing calls; a list-form add_id that hits
\* a duplicate keeps the elements before it, each with its row.
RowLockstep ==
  /\ Len(edge_data) = size(idmap)
  /\ \A i \in Nodes(edge_data) : Keys(edge_data[i + 1]) \subseteq Nodes(edge_data)
  /\ \A node_ids \in IDLists :
       LET res == add_id_list(graph, node_ids)
           bad == Rejected(idmap, node_ids)
       IN bad # {} =>
            LET first == CHOOSE p \in bad : \A q \in bad : p <= q IN
            /\ res.exc = "AssertionError"
            /\ \A p \in 1 .. first - 1 :
                 /\ contains(res.g.idmap, PyStr(Canonical(node_ids[p])))
                 /\ res.g.idmap.data[Canonical(node_ids[p])] = size(idmap) + p - 1
            /\ size(res.g.idmap) = size(idmap) + first - 1
            /\ Len(res.g.edge) = size(res.g.idmap)

\* A list-form add_id has failed on a duplicate after adding an element.
RowLockstepWitness ==
  /\ last.op = "add_id_list" /\ last.exc = "AssertionError" /\ last.added > 0
  /\ Len(edge_data) = size(idmap)

\* The weight the claim expects after a write of w2 over w1.
Expected(w1, w2, r) ==
  CASE r = "max" -> IF w1 > w2 THEN w1 ELSE w2
    [] r = "min" -> IF w1 < w2 THEN w1 ELSE w2
    [] r = "None" -> w2

\* One call of add_edge(a,b,w2,r) on an edge stored with weight w1 # w2 raises
\* nothing and leaves Expected(w1, w2, r).
ReductionCorrect ==
  \A a, b \in KnownIDs, w2 \in Weights, r \in ValidReductions :
    LET i == idmap.data[a.s]
        j == idmap.data[b.s]
        w1 == Entry(edge_data, i, j)
        res == add_edge(graph, a, b, w2, r)
    IN (w1 # 0 /\ w1 # w2) =>
         /\ res.exc = "none"
         /\ Entry(res.g.edge, i, j) = Expected(w1, w2, r)
         /\ get_edge(res.g, a, b) = [exc |-> "none", ret |-> Expected(w1, w2, r)]

\* C10: add_edge with a reduction other than None, "min", "max" raises
\* ValueError and leaves the IDmap and both stores as they were.
InvalidReductionRejected ==
  \A a, b \in NodeIDs, w \in Weights, r \in Reductions \ ValidReductions :
    LET res == add_edge(graph, a, b, w, r) IN
    res.exc = "ValueError" /\ res.g = graph

\* add_edge has raised ValueError on a graph that already holds an edge.
InvalidReductionRejectedWitness ==
  /\ last.op = "add_edge" /\ last.exc = "ValueError"
  /\ \E i, j \in Nodes(edge_data) : Has(edge_data[i + 1], j)

\* The integer an identifier denotes, as its digits; <<>> when it denotes none.
IntegerOf(ID) ==
  LET p == ParseFloat(ID.s) IN
  IF p.ok /\ StripTrailingZeros(p.fp) = <<>> THEN StripLeadingZeros(p.ip) ELSE <<>>

\* C7: once one spelling of an integer has been added, the membership test, the
\* index lookup, add_edge and get_edge with any other spelling of that integer
\* resolve to the same node, raise nothing and create no second node.
NumericCanonicalization ==
  \A a, b \in NodeIDs :
    (IntegerOf(a) # <<>> /\ IntegerOf(a) = IntegerOf(b)
       /\ contains(idmap, PyStr(Canonical(a)))) =>
      /\ contains(idmap, b)
      /\ getitem(idmap, b) = [exc |-> "none", idx |-> idmap.data[Canonical(a)]]
      /\ \A c \in KnownIDs, w \in Weights :
           LET res == add_edge(graph, b, c, w, "None") IN
           /\ res.exc = "none"
           /\ size(res.g.idmap) = size(idmap)
           /\ get_edge(res.g, b, c) = get_edge(res.g, PyStr(Canonical(a)), c)

\* C8: get_edge returns the stored weight of an existing edge, 0 when both ids
\* are in the map and no edge is stored, and raises when an id is not in the map.
GetEdgeContract ==
  [][\A a, b \in StrIDs :
       GetEdge(a, b) =>
         IF a \in KnownIDs /\ b \in KnownIDs
           THEN /\ last'.exc = "none"
                /\ last'.ret = Entry(edge_data, idmap.data[a.s], idmap.data[b.s])
           ELSE last'.exc # "none"]_vars

\* C9: with self_loops=False no row i holds the key i, and add_edge(a,a,w)
\* raises nothing, leaves num_edges and every stored edge unchanged, and
\* get_edge(a,a) is 0 afterwards.
SelfLoopExclusion ==
  [][~self_loops =>
       /\ \A i \in Nodes(edge_data') : ~Has(edge_data'[i + 1], i)
       /\ \A a \in StrIDs, w \in Weights, r \in ValidReductions :
            AddEdge(a, a, w, r) =>
              /\ last'.exc = "none"
              /\ num_edges(graph') = num_edges(graph)
              /\ \A i, j \in Nodes(edge_data') :
                   Entry(edge_data', i, j) = Entry(edge_data, i, j)
              /\ get_edge(graph', a, a) = [exc |-> "none", ret |-> 0]]_vars

(***************************************************************************)
(* An IDmap on its own, under addID and pop                                *)
(***************************************************************************)
IDmapIDs ==
  NodeIDs \cup
    { PyStr(<<"b">>), PyStr(<<"0", "1">>), PyStr(<<"1", ".", "5">>),
      PyStr(<<".", "5", "0">>), PyFloat(<<"1", ".", "0">>), PyNone }

InitIDmap ==
  /\ cls = "IDmap"
  /\ weighted = TRUE
  /\ directed = FALSE
  /\ self_loops = FALSE
  /\ idmap = EmptyIDmap
  /\ edge_data = <<>>
  /\ rev_edge_data = <<>>
  /\ last = NoCall
  /\ file = <<>>
  /\ hist = <<>>
  /\ other = NoGraph
  /\ lsc = NoLsc
  /\ par = NoPar

IDmapAddID(ID) ==
  LET a == addID(idmap, ID) IN
  /\ idmap' = a.m
  /\ last' = [op |-> "addID", exc |-> a.exc, ret |-> 0,
               added |-> size(a.m) - size(idmap)]
  /\ UNCHANGED <<config, edge_data, rev_edge_data, file, hist, other, lsc, par>>

IDmapPop(ID) ==
  LET a == pop(idmap, ID) IN
  /\ idmap' = a.m
  /\ last' = [op |-> "pop", exc |-> a.exc, ret |-> 0,
               added |-> size(a.m) - size(idmap)]
  /\ UNCHANGED <<config, edge_data, rev_edge_data, file, hist, other, lsc, par>>

NextIDmap ==
  \/ \E ID \in IDmapIDs : IDmapAddID(ID)
  \/ \E ID \in IDmapIDs : IDmapPop(ID)

SpecIDmap == InitIDmap /\ [][NextIDmap]_vars

\* C3: the identifier list has no duplicates, the keys of the map are the
\* listed identifiers, data[lst[i]] = i for every i in [0, size), so distinct
\* identifiers have distinct indices and the indices are exactly 0..size-1.
IDmapConsistent ==
  /\ \A p, q \in DOMAIN idmap.lst : p # q => idmap.lst[p] # idmap.lst[q]
  /\ DOMAIN idmap.data = {idmap.lst[p] : p \in DOMAIN idmap.lst}
  /\ \A p \in DOMAIN idmap.lst : idmap.data[idmap.lst[p]] = p - 1
  /\ \A k1, k2 \in DOMAIN idmap.data : k1 # k2 => idmap.data[k1] # idmap.data[k2]
  /\ {idmap.data[k] : k \in DOMAIN idmap.data} = 0 .. size(idmap) - 1

\* A pop has removed the first identifier of a map that keeps two or more.
IDmapConsistentWitness ==
  /\ last.op = "pop" /\ last.exc = "none" /\ last.added = -1
  /\ size(idmap) >= 2
  /\ idmap.lst[1] # <<"a">> /\ idmap.lst[2] = <<"a">>

(***************************************************************************)
(* The graph under add_id, add_edge and save                               *)
(***************************************************************************)
CutThresholds == {0, 1}

InitSave ==
  /\ cls \in {"SparseGraph", "DirectedSparseGraph"}
  /\ weighted \in BOOLEAN
  /\ directed \in IF cls = "DirectedSparseGraph" THEN {TRUE} ELSE BOOLEAN
  /\ self_loops \in IF cls = "DirectedSparseGraph" THEN {FALSE} ELSE BOOLEAN
  /\ idmap = EmptyIDmap
  /\ edge_data = <<>>
  /\ rev_edge_data = <<>>
  /\ last = NoCall
  /\ file = <<>>
  /\ hist = <<>>
  /\ other = NoGraph
  /\ lsc = NoLsc
  /\ par = NoPar

NextSave ==
  \/ \E node_id \in StrIDs : AddId(node_id) /\ UNCHANGED <<file, hist, other, lsc, par>>
  \/ \E node_id1, node_id2 \in StrIDs, weight \in Weights :
       AddEdge(node_id1, node_id2, weight, "None") /\ UNCHANGED <<file, hist, other, lsc, par>>
  \/ \E cut_threshold \in CutThresholds : Save(cut_threshold) /\ UNCHANGED <<hist, other, lsc, par>>

SpecSave == InitSave /\ [][NextSave]_vars

\* C6: save() leaves the IDmap and every adjacency row unchanged, and after a
\* save that succeeded a second save with the same threshold succeeds and
\* writes the same lines.
SaveReadOnly ==
  [][\A cut_threshold \in CutThresholds :
       Save(cut_threshold) =>
         /\ idmap' = idmap
         /\ edge_data' = edge_data
         /\ rev_edge_data' = rev_edge_data
         /\ last'.exc = "none" =>
              LET again == save(graph', cut_threshold) IN
              again.exc = "none" /\ again.lines = file']_vars

(***************************************************************************)
(* The graph under add_edge, with the history of the writes to each entry  *)
(***************************************************************************)
\* Identifiers that are their own canonical form.
CanonicalIDs == {x \in StrIDs : Canonical(x) = x.s}

\* The entries of edge_data that add_edge(a,b,..) writes in graph g.
Written(g, a, b) ==
  LET i == g.idmap.data[a.s]
      j == g.idmap.data[b.s]
  IN IF ~self_loops /\ i = j THEN {}
     ELSE IF directed THEN {<<i, j>>} ELSE {<<i, j>>, <<j, i>>}

Record(h, entries, weight, reduction) ==
  [e \in DOMAIN h \cup entries |->
     IF e \notin entries THEN h[e]
     ELSE IF e \notin DOMAIN h
       THEN [hi |-> IF reduction = "max" THEN weight ELSE 0,
             lo |-> IF reduction = "min" THEN weight ELSE 0]
       ELSE [hi |-> IF reduction = "max" /\ h[e].hi # 0
                      THEN Max2(h[e].hi, weight) ELSE 0,
             lo |-> IF reduction = "min" /\ h[e].lo # 0
                      THEN Min2(h[e].lo, weight) ELSE 0]]

AddEdgeRecorded(node_id1, node_id2, weight, reduction) ==
  /\ AddEdge(node_id1, node_id2, weight, reduction)
  /\ hist' = IF last'.exc = "none"
               THEN Record(hist, Written(graph', node_id1, node_id2), weight, reduction)
               ELSE hist
  /\ UNCHANGED <<file, other, lsc, par>>

NextHist ==
  \E node_id1, node_id2 \in CanonicalIDs, weight \in Weights,
     reduction \in ValidReductions :
    AddEdgeRecorded(node_id1, node_id2, weight, reduction)

SpecHist == Init /\ [][NextHist]_vars

\* C5: add_edge(a,b,w2,r) on an edge stored with weight w1 # w2 raises nothing
\* and leaves max(w1,w2) for "max", min(w1,w2) for "min" and w2 for None; an
\* entry written only with "max" (only with "min") holds the largest (smallest)
\* weight ever written to it.
ReductionCorrectness ==
  /\ ReductionCorrect
  /\ \A e \in DOMAIN hist :
       /\ hist[e].hi # 0 => Entry(edge_data, e[1], e[2]) = hist[e].hi
       /\ hist[e].lo # 0 => Entry(edge_data, e[1], e[2]) = hist[e].lo

\* An entry written twice or more, each time with "max" and not always with
\* the same weight, the latest write being a smaller weight.
ReductionCorrectnessWitness ==
  /\ last.op = "add_edge" /\ last.exc = "none" /\ last.added = 0
  /\ \E e \in DOMAIN hist : hist[e].hi = MaxWeight /\ e[1] # e[2]
  /\ \E a, b \in KnownIDs :
       /\ a # b
       /\ get_edge(graph, a, b).ret = MaxWeight

(***************************************************************************)
(* induced_subgraph: the source graph and the graph made from it           *)
(***************************************************************************)
\* Longest list of identifiers passed to induced_subgraph.
MaxSubLen == 3
\* add_edge is called while the current graph stores fewer entries than this.
MaxSubEntries == 3
\* Calls that change one of the two graphs after induced_subgraph returned.
MaxLater == 2

SubIDs == {PyStr(<<"a">>), PyStr(<<"b">>), PyStr(<<"c">>)}

SubLists == UNION {[1..n -> SubIDs] : n \in 0..MaxSubLen}

\* A graph object: its class and flags, its IDmap and adjacency lists, and the
\* attributes whose object it has in common with the current graph.
as_object(c, w, d, s, g, shares) ==
  [cls |-> c, weighted |-> w, directed |-> d, self_loops |-> s,
   idmap |-> g.idmap, edge |-> g.edge, rev |-> g.rev, shares |-> shares,
   age |-> 0]

\* SparseGraph.__init__: a new IDmap and a new, empty adjacency list.
new_graph == [idmap |-> EmptyIDmap, edge |-> <<>>, rev |-> <<>>]

\* SparseGraph.add_id, non-list branch, whatever the class of the current graph.
sparse_add_id_row(g, a) ==
  IF a.exc # "none" THEN [exc |-> a.exc, g |-> g]
  ELSE [exc |-> "none",
        g |-> [idmap |-> a.m, edge |-> Append(g.edge, <<>>), rev |-> g.rev]]

sparse_add_id(g, node_id) == sparse_add_id_row(g, addID(g.idmap, node_id))

\* Mutant of subgraph_add_nodes: a requested node that the source does not
\* have is left out.
RECURSIVE subgraph_add_nodes_skip_absent(_, _, _)
subgraph_add_nodes_skip_absent(src, outcome, node_ids) ==
  IF node_ids = <<>> \/ outcome.exc # "none" THEN outcome
  ELSE IF ~contains(src.idmap, Head(node_ids))
    THEN subgraph_add_nodes_skip_absent(src, outcome, Tail(node_ids))
    ELSE subgraph_add_nodes_skip_absent(src,
           sparse_add_id(outcome.g, Head(node_ids)), Tail(node_ids))

\* First loop of induced_subgraph: each requested node is looked up in the
\* source and added to the new graph, in the order of the list.
RECURSIVE subgraph_add_nodes(_, _, _)
subgraph_add_nodes(src, outcome, node_ids) ==
  IF node_ids = <<>> \/ outcome.exc # "none" THEN outcome
  ELSE IF ~contains(src.idmap, Head(node_ids))
    THEN [exc |-> "IDNotExistError", g |-> outcome.g]
    ELSE subgraph_add_nodes(src, sparse_add_id(outcome.g, Head(node_ids)),
                            Tail(node_ids))

\* node2 in node_ids_set
in_node_ids_set(node2, node_ids) == \E p \in DOMAIN node_ids : node_ids[p] = node2

\* Mutant of subgraph_add_item: the edge is copied whether or not node2 is
\* requested.
subgraph_add_item_unfiltered(src, outcome, node_ids, node1, item) ==
  sparse_add_edge(outcome.g, node1, PyStr(src.idmap.lst[item.k + 1]),
                  item.v, "None")

\* One item (node2_idx, weight) of the row of node1: graph.add_edge(node1,
\* node2, weight) when node2 is requested.  Both nodes were added by the first
\* loop, so _default_add_id adds nothing here.
subgraph_add_item(src, outcome, node_ids, node1, item) ==
  IF in_node_ids_set(PyStr(src.idmap.lst[item.k + 1]), node_ids)
    THEN sparse_add_edge(outcome.g, node1, PyStr(src.idmap.lst[item.k + 1]),
                         item.v, "None")
    ELSE outcome

\* Inner loop of induced_subgraph over the items of row, from position pos.
RECURSIVE subgraph_add_row(_, _, _, _, _, _)
subgraph_add_row(src, outcome, node_ids, node1, row, pos) ==
  IF outcome.exc # "none" \/ pos > Len(row) THEN outcome
  ELSE subgraph_add_row(src,
         subgraph_add_item(src, outcome, node_ids, node1, row[pos]),
         node_ids, node1, row, pos + 1)

\* self.edge_data[self.idmap[node1]].items()
subgraph_row_of(src, outcome, node_ids, node1, i1) ==
  IF i1.exc # "none" THEN [exc |-> i1.exc, g |-> outcome.g]
  ELSE subgraph_add_row(src, outcome, node_ids, node1, src.edge[i1.idx + 1], 1)

\* Second loop of induced_subgraph, over the nodes in rest.
RECURSIVE subgraph_add_edges(_, _, _, _)
subgraph_add_edges(src, outcome, node_ids, rest) ==
  IF rest = <<>> \/ outcome.exc # "none" THEN outcome
  ELSE subgraph_add_edges(src,
         subgraph_row_of(src, outcome, node_ids, Head(rest),
                         getitem(src.idmap, Head(rest))),
         node_ids, Tail(rest))

\* What the call leaves: the exception, the graph returned (NoGraph when the
\* call raised) and the source graph.
subgraph_result(src, outcome) ==
  [exc |-> outcome.exc,
   sub |-> IF outcome.exc # "none" THEN NoGraph
           ELSE as_object("SparseGraph", weighted, directed, self_loops,
                          outcome.g, {}),
   src |-> src]

\* Mutant of induced_subgraph: the new graph is given the IDmap object of the
\* source when every node of the source is requested, in the order of the source.
induced_subgraph_same_idmap(g, node_ids) ==
  [subgraph_result(g,
     subgraph_add_edges(g,
       subgraph_add_nodes(g, [exc |-> "none", g |-> new_graph], node_ids),
       node_ids, node_ids))
   EXCEPT !.sub = IF @.cls # "none" /\ @.idmap = g.idmap
                    THEN [@ EXCEPT !.shares = {"idmap"}] ELSE @]

\* SparseGraph.induced_subgraph
induced_subgraph(g, node_ids) ==
  subgraph_result(g,
    subgraph_add_edges(g,
      subgraph_add_nodes(g, [exc |-> "none", g |-> new_graph], node_ids),
      node_ids, node_ids))

\* The other graph after a call on the current graph that left it as g: the
\* attributes that are one object in both graphs change in both.
Follow(o, g) ==
  IF o.cls = "none" THEN o
  ELSE [o EXCEPT !.idmap = IF "idmap" \in o.shares THEN g.idmap ELSE @,
                 !.edge = IF "edge_data" \in o.shares THEN g.edge ELSE @,
                 !.age = @ + 1]

\* The program goes on with the graph the call returned; the source is kept.
Returned(r) ==
  IF r.exc = "none"
    THEN /\ cls' = r.sub.cls
         /\ weighted' = r.sub.weighted
         /\ directed' = r.sub.directed
         /\ self_loops' = r.sub.self_loops
         /\ Commit(r.sub)
         /\ other' = as_object(cls, weighted, directed, self_loops, r.src,
                               r.sub.shares)
    ELSE /\ Commit(r.src)
         /\ UNCHANGED <<config, other, lsc, par>>

InducedSubgraph(node_ids) ==
  /\ other.cls = "none"
  /\ Returned(induced_subgraph(graph, node_ids))
  /\ last' = [op |-> "induced_subgraph",
               exc |-> induced_subgraph(graph, node_ids).exc,
               ret |-> 0, added |-> 0]

\* The program turns to the other graph.
Switch ==
  /\ other.cls # "none"
  /\ cls' = other.cls
  /\ weighted' = other.weighted
  /\ directed' = other.directed
  /\ self_loops' = other.self_loops
  /\ Commit(other)
  /\ other' = as_object(cls, weighted, directed, self_loops, graph, other.shares)
                 @@ [age |-> other.age]
  /\ UNCHANGED last

\* add_edge while the graph is small (reduction left at its default).
BuildEdge(node_id1, node_id2, weight) ==
  /\ num_edges(graph) < MaxSubEntries
  /\ AddEdge(node_id1, node_id2, weight, "None")

\* A source graph is built by add_edge (which adds the nodes it names), then
\* induced_subgraph is called on it.
NextSub ==
  \/ \E node_id1, node_id2 \in SubIDs, weight \in Weights :
       /\ other.cls = "none"
       /\ BuildEdge(node_id1, node_id2, weight)
       /\ UNCHANGED <<file, hist, other, lsc, par>>
  \/ \E node_ids \in SubLists : InducedSubgraph(node_ids) /\ UNCHANGED <<file, hist, lsc, par>>

SpecSub == Init /\ [][NextSub]_vars

Distinct(node_ids) ==
  \A p, q \in DOMAIN node_ids : p # q => node_ids[p] # node_ids[q]

\* C11: for a list of distinct ids that are all in the source graph,
\* induced_subgraph returns a graph whose idmap lists the requested ids in the
\* requested order, whose entry [p][q] exists iff the source has an entry between
\* the p-th and the q-th requested id, with the same weight, which has no other
\* entry, and which has the source's weighted/directed/self_loops flags.
InducedSubgraphExact ==
  \A node_ids \in SubLists :
    (Distinct(node_ids) /\ \A p \in DOMAIN node_ids : contains(idmap, node_ids[p])) =>
      LET r == induced_subgraph(graph, node_ids)
          n == Len(node_ids)
      IN /\ r.exc = "none"
         /\ r.sub.idmap.lst = [p \in 1 .. n |-> node_ids[p].s]
         /\ DOMAIN r.sub.idmap.data = {node_ids[p].s : p \in 1 .. n}
         /\ \A p \in 1 .. n : r.sub.idmap.data[node_ids[p].s] = p - 1
         /\ Len(r.sub.edge) = n
         /\ \A p \in 1 .. n : Keys(r.sub.edge[p]) \subseteq 0 .. n - 1
         /\ \A p, q \in 1 .. n :
              Entry(r.sub.edge, p - 1, q - 1) =
                Entry(edge_data, idmap.data[node_ids[p].s], idmap.data[node_ids[q].s])
         /\ r.sub.weighted = weighted
         /\ r.sub.directed = directed
         /\ r.sub.self_loops = self_loops

\* induced_subgraph has returned a graph of two of the three nodes of its
\* source, with an edge of the source kept and another one left out.
InducedSubgraphExactWitness ==
  /\ last.op = "induced_subgraph" /\ last.exc = "none"
  /\ size(idmap) = 2 /\ size(other.idmap) = 3
  /\ num_edges(graph) >= 1
  /\ num_edges(other) > num_edges(graph)

\* The position of the first requested id that the source graph does not have.
FirstAbsent(node_ids) ==
  CHOOSE p \in DOMAIN node_ids :
    /\ ~contains(idmap, node_ids[p])
    /\ \A q \in 1 .. p - 1 : contains(idmap, node_ids[q])

\* C12 (amended): whenever a requested id is not in the source graph,
\* induced_subgraph raises, returns no graph and leaves the source graph as it
\* was; it raises IDNotExistError when no id is repeated before the first
\* absent one, and the AssertionError of the repeated id otherwise.
InducedSubgraphRejects ==
  \A node_ids \in SubLists :
    (\E p \in DOMAIN node_ids : ~contains(idmap, node_ids[p])) =>
      LET r == induced_subgraph(graph, node_ids) IN
      /\ r.exc = IF Distinct(SubSeq(node_ids, 1, FirstAbsent(node_ids) - 1))
                   THEN "IDNotExistError" ELSE "AssertionError"
      /\ r.sub = NoGraph
      /\ r.src = graph

\* induced_subgraph has raised IDNotExistError on a graph of two or more nodes
\* and no second graph exists.
InducedSubgraphRejectsWitness ==
  /\ last.op = "induced_subgraph" /\ last.exc = "IDNotExistError"
  /\ size(idmap) >= 2 /\ num_edges(graph) >= 1
  /\ other = NoGraph
  /\ lsc = NoLsc
  /\ par = NoPar

\* C12 as stated: whenever a requested id is not in the source graph, at
\* whatever position of the list, induced_subgraph raises IDNotExistError,
\* returns no graph and leaves the source graph as it was.
InducedSubgraphUnknownId ==
  \A node_ids \in SubLists :
    (\E p \in DOMAIN node_ids : ~contains(idmap, node_ids[p])) =>
      LET r == induced_subgraph(graph, node_ids) IN
      /\ r.exc = "IDNotExistError"
      /\ r.sub = NoGraph
      /\ r.src = graph

(***************************************************************************)
(* The two graphs after induced_subgraph, each changed by add_id/add_edge  *)
(***************************************************************************)
CopyIDs == {PyStr(<<"a">>), PyStr(<<"b">>)}

CopyLists == UNION {[1..n -> CopyIDs] : n \in 0..MaxListLen}

SubAddId(node_id) ==
  /\ other.age < MaxLater
  /\ AddId(node_id)
  /\ other' = Follow(other, graph')

SubAddEdge(node_id1, node_id2, weight) ==
  /\ other.age < MaxLater
  /\ BuildEdge(node_id1, node_id2, weight)
  /\ other' = Follow(other, graph')

NextCopy ==
  \/ \E node_id \in CopyIDs : SubAddId(node_id) /\ UNCHANGED <<file, hist, lsc, par>>
  \/ \E node_id1, node_id2 \in CopyIDs, weight \in Weights :
       SubAddEdge(node_id1, node_id2, weight) /\ UNCHANGED <<file, hist, lsc, par>>
  \/ \E node_ids \in CopyLists : InducedSubgraph(node_ids) /\ UNCHANGED <<file, hist, lsc, par>>
  \/ Switch /\ UNCHANGED <<file, hist, lsc, par>>

SpecCopy == Init /\ [][NextCopy]_vars

Float32Exact == 16777216

RECURSIVE Ulp(_)
Ulp(w) == IF w < Float32Exact THEN 1 ELSE 2 * Ulp(w \div 2)

\* The nearer of the two float32 next to w, the even one when w is half way.
RoundTo(w, q) ==
  IF 2 * (w % q) < q THEN w - (w % q)
  ELSE IF 2 * (w % q) > q THEN w - (w % q) + q
  ELSE IF ((w - (w % q)) \div q) % 2 = 0 THEN w - (w % q)
  ELSE w - (w % q) + q

\* edge_weight has dtype float32: the whole, positive weight w as stored in it.
Float32(w) == RoundTo(w, Ulp(w))

\* An element of a numpy array of str read back: the NUL characters at the
\* end, which are the padding of the array, are dropped.
RECURSIVE NumpyStr(_)
NumpyStr(s) ==
  IF Len(s) > 0 /\ s[Len(s)] = "NUL" THEN NumpyStr(SubSeq(s, 1, Len(s) - 1)) ELSE s

ArchiveIDs == {PyStr(<<"a">>), PyStr(<<"b">>), PyStr(<<"b", "NUL">>)}

ArchiveWeights == {1, Float32Exact + 1}

\* The items of the rows from row i on, in the order save_npz visits them
\* (edge_index is uint32: a row number is stored in it as it is).
RECURSIVE npz_edges(_, _)
npz_edges(store, i) ==
  IF i > Len(store) THEN <<>>
  ELSE [p \in DOMAIN store[i] |->
          [src |-> i - 1, dst |-> store[i][p].k,
           weight |-> Float32(store[i][p].v)]]
       \o npz_edges(store, i + 1)

\* save_npz(out_path, weighted): the arrays of the file.
save_npz(g, weighted_arg) ==
  [node_ids |-> [p \in DOMAIN g.idmap.lst |-> NumpyStr(g.idmap.lst[p])],
   edge_index |-> [p \in DOMAIN npz_edges(g.edge, 1) |->
                     <<npz_edges(g.edge, 1)[p].src, npz_edges(g.edge, 1)[p].dst>>],
   edge_weight |-> [p \in DOMAIN npz_edges(g.edge, 1) |->
                      npz_edges(g.edge, 1)[p].weight],
   names |-> IF weighted_arg THEN {"edge_index", "edge_weight", "node_ids"}
             ELSE {"edge_index", "node_ids"}]

\* idmap.from_list(node_ids): the identifiers added one by one.
RECURSIVE from_list(_, _)
from_list(outcome, node_ids) ==
  IF node_ids = <<>> \/ outcome.exc # "none" THEN outcome
  ELSE from_list(addID(outcome.m, PyStr(Head(node_ids))), Tail(node_ids))

\* The loop of read_npz over the columns of edge_index, from column p on.
RECURSIVE npz_fill(_, _, _, _)
npz_fill(store, arch, w, p) ==
  IF p > Len(arch.edge_index) THEN store
  ELSE npz_fill([store EXCEPT ![arch.edge_index[p][1] + 1] =
                   Put(@, arch.edge_index[p][2],
                       IF w THEN arch.edge_weight[p] ELSE 1)],
                arch, w, p + 1)

\* Mutant of read_npz_rows: the weights of the archive are kept also when the
\* graph is not weighted.
read_npz_rows_keep_weights(g, arch, w, ids) ==
  IF ids.exc # "none" THEN [exc |-> ids.exc, g |-> g]
  ELSE IF "edge_weight" \notin arch.names THEN [exc |-> "KeyError", g |-> g]
  ELSE [exc |-> "none",
        g |-> [idmap |-> ids.m,
               edge |-> npz_fill([p \in DOMAIN arch.node_ids |-> <<>>], arch, TRUE, 1),
               rev |-> g.rev]]

\* read_npz once the IDmap has been made: the rows and their entries.
read_npz_rows(g, arch, w, ids) ==
  IF ids.exc # "none" THEN [exc |-> ids.exc, g |-> g]
  ELSE IF w /\ "edge_weight" \notin arch.names THEN [exc |-> "KeyError", g |-> g]
  ELSE [exc |-> "none",
        g |-> [idmap |-> ids.m,
               edge |-> npz_fill([p \in DOMAIN arch.node_ids |-> <<>>], arch, w, 1),
               rev |-> g.rev]]

\* read_npz on a graph g whose weighted flag is w.
read_npz(g, arch, w) ==
  read_npz_rows(g, arch, w,
                from_list([exc |-> "none", m |-> EmptyIDmap], arch.node_ids))

\* What from_npz leaves: the exception, the graph returned and the graph
\* that was saved.
from_npz_result(c, w, d, outcome, src) ==
  [exc |-> outcome.exc,
   sub |-> IF outcome.exc # "none" THEN NoGraph
           ELSE as_object(c, w, d, FALSE, outcome.g, {}),
   src |-> src]

\* cls.from_npz(path, weighted, directed): DirectedSparseGraph.__init__ takes
\* no argument directed.
from_npz(c, arch, w, d, src) ==
  IF c = "DirectedSparseGraph"
    THEN from_npz_result(c, w, d, [exc |-> "TypeError", g |-> new_graph], src)
    ELSE from_npz_result(c, w, d, read_npz(new_graph, arch, w), src)

SaveNpz(weighted_arg) ==
  /\ file = <<>>
  /\ file' = save_npz(graph, weighted_arg)
  /\ last' = [op |-> "save_npz", exc |-> "none", ret |-> 0, added |-> 0]
  /\ UNCHANGED <<config, idmap, edge_data, rev_edge_data>>

FromNpz(c, w, d) ==
  /\ other.cls = "none"
  /\ file # <<>>
  /\ Returned(from_npz(c, file, w, d, graph))
  /\ last' = [op |-> "from_npz", exc |-> from_npz(c, file, w, d, graph).exc,
               ret |-> 0, added |-> 0]

\* A graph is built by add_edge (which adds the nodes it names), saved, and
\* read back.
NextNpz ==
  \/ \E node_id1, node_id2 \in ArchiveIDs, weight \in ArchiveWeights :
       /\ file = <<>>
       /\ BuildEdge(node_id1, node_id2, weight)
       /\ UNCHANGED <<file, hist, other, lsc, par>>
  \/ \E weighted_arg \in BOOLEAN : SaveNpz(weighted_arg) /\ UNCHANGED <<hist, other, lsc, par>>
  \/ \E c \in {"SparseGraph", "DirectedSparseGraph"}, w, d \in BOOLEAN :
       FromNpz(c, w, d) /\ UNCHANGED <<file, hist, lsc, par>>

SpecNpz == InitSave /\ [][NextNpz]_vars

\* No identifier of the graph ends in a NUL character.
NoNulPadding == \A p \in DOMAIN idmap.lst : NumpyStr(idmap.lst[p]) = idmap.lst[p]

MaxFileLines == 3

\* float(1), in tenths.
One == 10

DigitVal(d) ==
  CHOOSE n \in 0 .. 9 : <<"0", "1", "2", "3", "4", "5", "6", "7", "8", "9">>[n + 1] = d

RECURSIVE IntVal(_)
IntVal(s) ==
  IF s = <<>> THEN 0 ELSE 10 * IntVal(SubSeq(s, 1, Len(s) - 1)) + DigitVal(s[Len(s)])

Whitespace == {" ", "\n", "\r"}

\* str.strip()
RECURSIVE StripWs(_)
StripWs(s) ==
  IF s = <<>> THEN s
  ELSE IF Head(s) \in Whitespace THEN StripWs(Tail(s))
  ELSE IF s[Len(s)] \in Whitespace THEN StripWs(SubSeq(s, 1, Len(s) - 1))
  ELSE s

\* float(weight) of a numeral with at most one decimal, in tenths.
Tenths(p) == 10 * IntVal(p.ip) + (IF p.fp = <<>> THEN 0 ELSE DigitVal(p.fp[1]))

\* A line is the list line.split("\t") makes of it.
ReaderLines ==
  { << <<"1">>, <<"3">>, <<"0", ".", "4", "\n">> >>,
    << <<"1">>, <<"2">>, <<"1", "\n">> >>,
    << <<"3">>, <<"4">>, <<"0", ".", "1", "\n">> >>,
    << <<"1">>, <<"2", "\n">> >>,
    << <<"2">>, <<"3">>, <<"x", "\n">> >> }

Files == UNION {[1..n -> ReaderLines] : n \in 0..MaxFileLines}

ReaderCuts == {0, 4, One}

\* The body of the loop of edglst_reader for one line, once float(weight) is
\* known (p): the line is skipped, yielded as a triple, or ends the reader.
edglst_line_parsed(line, w, cut_threshold, p) ==
  IF Len(line) = 3 /\ p.ok
    THEN IF Tenths(p) <= cut_threshold THEN [kind |-> "skip"]
         ELSE [kind |-> "yield", node_id1 |-> StripWs(line[1]),
               node_id2 |-> StripWs(line[2]),
               weight |-> IF w THEN Tenths(p) ELSE One]
    ELSE IF Len(line) = 2
      THEN [kind |-> "yield", node_id1 |-> StripWs(line[1]),
            node_id2 |-> StripWs(line[2]), weight |-> One]
      ELSE [kind |-> "raise"]

edglst_line(line, w, cut_threshold) ==
  edglst_line_parsed(line, w, cut_threshold,
                     ParseFloat(StripWs(IF Len(line) = 3 THEN line[3] ELSE <<>>)))

\* edglst_reader run to its end or to its exception: the triples it yielded.
RECURSIVE edglst_reader(_, _, _)
edglst_reader(lines, w, cut_threshold) ==
  IF lines = <<>> THEN [exc |-> "none", out |-> <<>>]
  ELSE IF edglst_line(Head(lines), w, cut_threshold).kind = "raise"
    THEN [exc |-> "ValueError", out |-> <<>>]
  ELSE [exc |-> edglst_reader(Tail(lines), w, cut_threshold).exc,
        out |-> (IF edglst_line(Head(lines), w, cut_threshold).kind = "yield"
                   THEN <<edglst_line(Head(lines), w, cut_threshold)>> ELSE <<>>)
                \o edglst_reader(Tail(lines), w, cut_threshold).out]

\* The loop of read over what the reader gives for one line.
read_triple(outcome, y) ==
  IF y.kind = "raise" THEN [exc |-> "ValueError", g |-> outcome.g]
  ELSE IF y.kind = "skip" THEN outcome
  ELSE add_edge(outcome.g, PyStr(y.node_id1), PyStr(y.node_id2), y.weight, "None")

\* read(file, reader=edglst_reader, cut_threshold): add_edge of each triple as
\* the reader yields it.
RECURSIVE read_edglst(_, _, _)
read_edglst(outcome, lines, cut_threshold) ==
  IF lines = <<>> \/ outcome.exc # "none" THEN outcome
  ELSE read_edglst(read_triple(outcome, edglst_line(Head(lines), weighted, cut_threshold)),
                   Tail(lines), cut_threshold)

\* A matrix of shape (2, 3): the node ids of its first column and the weights.
NpyMats ==
  [ids : {<< <<"1", ".", "0">>, <<"2", ".", "0">> >>},
   w : {m \in [1..2 -> [1..2 -> {0, 2 * One}]] :
          m[1][1] = 0 /\ m[1][2] # 0 /\ m[2][1] = 0}]

NpyCuts == {0, 2 * One}

\* str(int(node_id)) of a float
StrInt(s) == StripLeadingZeros(ParseFloat(s).ip)

\* The body of the loops of npy_reader for the cell (i, j).
npy_cell(mat, i, j, cut_threshold) ==
  IF mat.w[i][j] > cut_threshold
    THEN [kind |-> "yield", node_id1 |-> StrInt(mat.ids[i]),
          node_id2 |-> StrInt(mat.ids[j]), weight |-> mat.w[i][j]]
    ELSE [kind |-> "skip"]

\* read(mat, reader=npy_reader, cut_threshold), from cell number c on (row
\* after row).
RECURSIVE read_npy(_, _, _, _)
read_npy(outcome, mat, c, cut_threshold) ==
  IF c >= Len(mat.ids) * Len(mat.ids) \/ outcome.exc # "none" THEN outcome
  ELSE read_npy(read_triple(outcome,
                  npy_cell(mat, (c \div Len(mat.ids)) + 1, (c % Len(mat.ids)) + 1,
                           cut_threshold)),
                mat, c + 1, cut_threshold)

\* The call has left outcome; ret keeps the threshold it was given.
Called(op, outcome, cut_threshold) ==
  /\ Commit(outcome.g)
  /\ last' = [op |-> op, exc |-> outcome.exc, ret |-> cut_threshold,
               added |-> size(outcome.g.idmap) - size(idmap)]
  /\ UNCHANGED config

ReadEdglst(cut_threshold) ==
  Called("read", read_edglst([exc |-> "none", g |-> graph], file, cut_threshold),
         cut_threshold)

ReadNpy(mat, cut_threshold) ==
  Called("read_npy", read_npy([exc |-> "none", g |-> graph], mat, 0, cut_threshold),
         cut_threshold)

InitRead ==
  /\ cls \in {"SparseGraph", "DirectedSparseGraph"}
  /\ weighted \in BOOLEAN
  /\ directed \in IF cls = "DirectedSparseGraph" THEN {TRUE} ELSE BOOLEAN
  /\ self_loops \in IF cls = "DirectedSparseGraph" THEN {FALSE} ELSE BOOLEAN
  /\ idmap = EmptyIDmap
  /\ edge_data = <<>>
  /\ rev_edge_data = <<>>
  /\ last = NoCall
  /\ file \in Files
  /\ hist = <<>>
  /\ other = NoGraph
  /\ lsc = NoLsc
  /\ par = NoPar

ReadIDs == {PyStr(<<"1">>), PyStr(<<"2">>)}

NextRead ==
  \/ \E node_id2 \in ReadIDs :
       /\ idmap = EmptyIDmap
       /\ AddEdge(PyStr(<<"1">>), node_id2, 2 * One, "None")
       /\ UNCHANGED <<file, hist, other, lsc, par>>
  \/ \E cut_threshold \in ReaderCuts :
       ReadEdglst(cut_threshold) /\ UNCHANGED <<file, hist, other, lsc, par>>
  \/ \E mat \in NpyMats, cut_threshold \in NpyCuts :
       ReadNpy(mat, cut_threshold) /\ UNCHANGED <<file, hist, other, lsc, par>>

SpecRead == InitRead /\ [][NextRead]_vars

\* C15: in a graph constructed with weighted=False every adjacency entry
\* carries weight 1.0, whatever add_edge was given and whichever reader made
\* the edges.
UnweightedEntriesOne ==
  ~weighted =>
    \A i \in Nodes(edge_data) :
      \A j \in Keys(edge_data[i + 1]) : Get(edge_data[i + 1], j) = One

\* The edge list "1\t3\t0.4\n1\t2\t1\n3\t4\t0.1\n".
ExampleFile ==
  << << <<"1">>, <<"3">>, <<"0", ".", "4", "\n">> >>,
     << <<"1">>, <<"2">>, <<"1", "\n">> >>,
     << <<"3">>, <<"4">>, <<"0", ".", "1", "\n">> >> >>

\* The undirected edges of the graph: the pairs of nodes with an entry.
UndirectedEdges ==
  {{i, j} : i \in Nodes(edge_data), j \in Nodes(edge_data)}
    \cap {e \in SUBSET Nodes(edge_data) :
            \E i, j \in e : e = {i, j} /\ Has(edge_data[i + 1], j)}

\* C19: the example edge list read into an empty weighted undirected graph
\* gives size 4, num_edges 3, get_edge("1","3") = 0.4 and get_edge("2","1") =
\* 1.0, and num_edges of an undirected graph counts each undirected edge once.
EdgeListExample ==
  /\ (/\ last.op = "read" /\ last.exc = "none" /\ last.ret = 0 /\ last.added = 4
      /\ file = ExampleFile
      /\ cls = "SparseGraph" /\ weighted /\ ~directed) =>
       /\ size(idmap) = 4
       /\ num_edges(graph) = 3
       /\ get_edge(graph, PyStr(<<"1">>), PyStr(<<"3">>)) = [exc |-> "none", ret |-> 4]
       /\ get_edge(graph, PyStr(<<"2">>), PyStr(<<"1">>)) = [exc |-> "none", ret |-> One]
  /\ (cls = "SparseGraph" /\ ~directed) =>
       num_edges(graph) = Cardinality(UndirectedEdges)

\* The weight of a line: its third column, or 1.0 when it has two columns.
LineWeight(line) ==
  IF Len(line) = 3 THEN Tenths(ParseFloat(StripWs(line[3]))) ELSE One

\* C20: the edge list reader yields a triple for a line iff the weight of the
\* line (its third column, or 1.0 when the column is missing) is greater than
\* cut_threshold, for weighted and unweighted graphs alike.
ReaderThreshold ==
  \A cut_threshold \in ReaderCuts :
    edglst_reader(file, weighted, cut_threshold).exc = "none" =>
      /\ \A p \in DOMAIN file :
           edglst_line(file[p], weighted, cut_threshold).kind = "yield"
             <=> LineWeight(file[p]) > cut_threshold
      /\ Len(edglst_reader(file, weighted, cut_threshold).out) =
           Cardinality({p \in DOMAIN file : LineWeight(file[p]) > cut_threshold})

(***************************************************************************)
(* add_edge called twice with the same arguments                           *)
(***************************************************************************)
\* What the second of two equal calls leaves, given what the first one left.
add_edge_again(first, node_id1, node_id2, weight, reduction) ==
  add_edge(first.g, node_id1, node_id2, weight, reduction)

\* C16: add_edge(a,b,w) called a second time with the same w and the same
\* reduction (directed or undirected graph) leaves the idmap, every stored
\* weight and num_edges as the first call left them.
AddEdgeIdempotent ==
  \A node_id1, node_id2 \in NodeIDs, weight \in Weights, reduction \in Reductions :
    /\ add_edge_again(add_edge(graph, node_id1, node_id2, weight, reduction),
                      node_id1, node_id2, weight, reduction).g
         = add_edge(graph, node_id1, node_id2, weight, reduction).g
    /\ num_edges(add_edge_again(add_edge(graph, node_id1, node_id2, weight, reduction),
                                node_id1, node_id2, weight, reduction).g)
         = num_edges(add_edge(graph, node_id1, node_id2, weight, reduction).g)

\* add_edge has just stored an entry between two nodes, and the same call with
\* a reduction would now change a stored weight of the graph: after a "min"
\* call with a smaller weight the second "min" call finds nothing to change.
AddEdgeIdempotentWitness ==
  /\ last.op = "add_edge" /\ last.exc = "none"
  /\ \E node_id1, node_id2 \in KnownIDs :
       /\ node_id1 # node_id2
       /\ get_edge(graph, node_id1, node_id2).ret = MaxWeight
       /\ add_edge(graph, node_id1, node_id2, 1, "min").exc = "none"
       /\ add_edge(graph, node_id1, node_id2, 1, "min").g # graph
       /\ add_edge_again(add_edge(graph, node_id1, node_id2, 1, "min"),
                         node_id1, node_id2, 1, "min").g
            = add_edge(graph, node_id1, node_id2, 1, "min").g

(***************************************************************************)
(* IDmap: what one call of addID and of pop does                           *)
(***************************************************************************)
\* The identifiers addID accepts: int, float and str.
AddableIDs == {ID \in IDmapIDs : ID.ty \in {"int", "float", "str"}}

\* C17: addID of an identifier that is present once converted (a numeral is
\* stored as str(int(x)) or str(float(x))) raises AssertionError and leaves the
\* list, the map and the size unchanged; addID of an absent identifier appends
\* it at the index that was the size, makes the size one larger and leaves the
\* index of every other identifier unchanged.
AddIDContract ==
  \A ID \in AddableIDs :
    IF Canonical(ID) \in DOMAIN idmap.data
      THEN /\ addID(idmap, ID).exc = "AssertionError"
           /\ addID(idmap, ID).m.lst = idmap.lst
           /\ addID(idmap, ID).m.data = idmap.data
           /\ size(addID(idmap, ID).m) = size(idmap)
      ELSE /\ addID(idmap, ID).exc = "none"
           /\ Len(addID(idmap, ID).m.lst) = Len(idmap.lst) + 1
           /\ addID(idmap, ID).m.lst[size(idmap) + 1] = Canonical(ID)
           /\ addID(idmap, ID).m.data[Canonical(ID)] = size(idmap)
           /\ size(addID(idmap, ID).m) = size(idmap) + 1
           /\ \A k \in DOMAIN idmap.data :
                /\ addID(idmap, ID).m.data[k] = idmap.data[k]
                /\ addID(idmap, ID).m.lst[idmap.data[k] + 1] = k

\* addID has just refused an identifier of a map that holds "1" and one more,
\* while 1.0 and "01" are spellings of "1" and "b" is still absent.
AddIDContractWitness ==
  /\ last.op = "addID" /\ last.exc = "AssertionError" /\ last.added = 0
  /\ size(idmap) = 2
  /\ <<"1">> \in DOMAIN idmap.data
  /\ <<"b">> \notin DOMAIN idmap.data
  /\ addID(idmap, PyFloat(<<"1", ".", "0">>)).exc = "AssertionError"
  /\ addID(idmap, PyStr(<<"0", "1">>)).exc = "AssertionError"
  /\ addID(idmap, PyStr(<<"b">>)).m.data[<<"b">>] = 2

\* C18: pop of an identifier that is no key of the map raises KeyError and
\* leaves the map unchanged; pop of the identifier at index k removes it from
\* the map and from the list, makes every index above k one smaller, keeps
\* every index below k and makes the size one smaller.
PopContract ==
  \A ID \in IDmapIDs :
    IF ~contains(idmap, ID)
      THEN pop(idmap, ID) = [exc |-> "KeyError", m |-> idmap]
      ELSE /\ pop(idmap, ID).exc = "none"
           /\ DOMAIN pop(idmap, ID).m.data = DOMAIN idmap.data \ {ID.s}
           /\ \A p \in DOMAIN pop(idmap, ID).m.lst : pop(idmap, ID).m.lst[p] # ID.s
           /\ \A x \in DOMAIN idmap.data \ {ID.s} :
                /\ pop(idmap, ID).m.data[x] =
                     IF idmap.data[x] > idmap.data[ID.s]
                       THEN idmap.data[x] - 1 ELSE idmap.data[x]
                /\ pop(idmap, ID).m.lst[pop(idmap, ID).m.data[x] + 1] = x
           /\ size(pop(idmap, ID).m) = size(idmap) - 1
           /\ Len(pop(idmap, ID).m.lst) = Len(idmap.lst) - 1

\* pop has just removed an identifier and left three, "a" in the middle: its
\* removal moves the last identifier and keeps the first, and pop of the
\* absent "1.0" raises KeyError although "1" is a key.
PopContractWitness ==
  /\ last.op = "pop" /\ last.exc = "none" /\ last.added = -1
  /\ size(idmap) = 3
  /\ idmap.lst[2] = <<"a">> /\ idmap.lst[3] = <<"1">>
  /\ pop(idmap, PyStr(<<"a">>)).m.data[<<"1">>] = 1
  /\ pop(idmap, PyStr(<<"a">>)).m.data[idmap.lst[1]] = 0
  /\ pop(idmap, PyStr(<<"1", ".", "0">>)).exc = "KeyError"

(***************************************************************************)
(* edglst_reader on a line whose third column is no number                 *)
(***************************************************************************)
\* The lines of the file with three columns and a numeral in the third.
WellFormed(line) == Len(line) = 2 \/ (Len(line) = 3 /\ ParseFloat(StripWs(line[3])).ok)

\* C21: a three-column line whose weight is no number does not end the
\* import: the reader raises nothing, read raises nothing, and every line
\* after it is still read (each well-formed three-column line above the
\* threshold and each two-column line gives a triple).
MalformedRecordTolerated ==
  last.op = "read" =>
    /\ last.exc = "none"
    /\ edglst_reader(file, weighted, last.ret).exc = "none"
    /\ Len(edglst_reader(file, weighted, last.ret).out) >=
         Cardinality({p \in DOMAIN file :
                        /\ WellFormed(file[p])
                        /\ edglst_line(file[p], weighted, last.ret).kind = "yield"})

(***************************************************************************)
(* from_npy: the matrix reader against the edge list reader                *)
(***************************************************************************)
MatIdx == 1 .. 3

\* Matrices of shape (3, 4): the node ids of column 0 and the weights, in
\* tenths, of columns 1..3.
NpyFiles ==
  [ids : {<< <<"1", ".", "0">>, <<"3", ".", "0">>, <<"2", ".", "0">> >>},
   w : {m \in [MatIdx -> [MatIdx -> {0, 4, 2 * One}]] :
          \A i \in MatIdx : m[i][i] # 4}]

\* The pairs (i, j) in the order of the two loops of npy_reader.
RowMajor(n) == [c \in 1 .. n * n |-> <<((c - 1) \div n) + 1, ((c - 1) % n) + 1>>]

\* npy_reader run to its end from cell number c on: the triples it yields.
RECURSIVE npy_reader(_, _, _)
npy_reader(mat, c, cut_threshold) ==
  IF c >= Len(mat.ids) * Len(mat.ids) THEN <<>>
  ELSE (IF npy_cell(mat, (c \div Len(mat.ids)) + 1, (c % Len(mat.ids)) + 1,
                    cut_threshold).kind = "yield"
          THEN <<npy_cell(mat, (c \div Len(mat.ids)) + 1, (c % Len(mat.ids)) + 1,
                          cut_threshold)>>
          ELSE <<>>)
       \o npy_reader(mat, c + 1, cut_threshold)

\* from_npy(mat, weighted, directed, cut_threshold): read into the new graph.
ReadNpyFile(cut_threshold) ==
  /\ last.op = "init"
  /\ ReadNpy(file, cut_threshold)
  /\ UNCHANGED <<file, hist, other, lsc, par>>

InitNpy ==
  /\ cls = "SparseGraph"
  /\ weighted \in BOOLEAN
  /\ directed \in BOOLEAN
  /\ self_loops = FALSE
  /\ idmap = EmptyIDmap
  /\ edge_data = <<>>
  /\ rev_edge_data = <<>>
  /\ last = NoCall
  /\ file \in NpyFiles
  /\ hist = <<>>
  /\ other = NoGraph
  /\ lsc = NoLsc
  /\ par = NoPar

NextNpy == \E cut_threshold \in {0, 4} : ReadNpyFile(cut_threshold)

SpecNpy == InitNpy /\ [][NextNpy]_vars

\* The numeral of a weight below 10, given in tenths.
Numeral(w) ==
  LET digit(n) == <<"0", "1", "2", "3", "4", "5", "6", "7", "8", "9">>[n + 1] IN
  IF w % 10 = 0 THEN <<digit(w \div 10)>>
  ELSE <<digit(w \div 10), ".", digit(w % 10)>>

\* The edge list of a symmetric matrix: one line for each pair i <= j with a
\* weight, row after row.
EdgeListOf(mat) ==
  LET pairs == SelectSeq(RowMajor(Len(mat.ids)),
                         LAMBDA pr : pr[1] <= pr[2] /\ mat.w[pr[1]][pr[2]] # 0)
  IN [p \in DOMAIN pairs |->
        << StrInt(mat.ids[pairs[p][1]]), StrInt(mat.ids[pairs[p][2]]),
           Numeral(mat.w[pairs[p][1]][pairs[p][2]]) \o <<"\n">> >>]

Symmetric(mat) == \A i, j \in DOMAIN mat.ids : mat.w[i][j] = mat.w[j][i]

EmptyGraph == [idmap |-> EmptyIDmap, edge |-> <<>>, rev |-> <<>>]

SameRows(store1, store2) ==
  /\ Len(store1) = Len(store2)
  /\ \A i \in DOMAIN store1 :
       /\ Keys(store1[i]) = Keys(store2[i])
       /\ \A j \in Keys(store1[i]) : Get(store1[i], j) = Get(store2[i], j)

\* The triples C22 expects of the reader: the pairs above the threshold, row
\* after row, with the ids written as integers.
ExpectedTriples(mat, cut_threshold) ==
  LET pairs == SelectSeq(RowMajor(Len(mat.ids)),
                         LAMBDA pr : mat.w[pr[1]][pr[2]] > cut_threshold)
  IN [p \in DOMAIN pairs |->
        [kind |-> "yield",
         node_id1 |-> IntegerOf(PyStr(mat.ids[pairs[p][1]])),
         node_id2 |-> IntegerOf(PyStr(mat.ids[pairs[p][2]])),
         weight |-> mat.w[pairs[p][1]][pairs[p][2]]]]

\* C22: npy_reader yields, row after row, exactly the triples (id_i, id_j,
\* mat[i][j+1]) with mat[i][j+1] > cut_threshold, the ids written as integers;
\* a symmetric matrix read as an undirected graph gives the identifier order
\* and the adjacency rows of its edge list read the same way.
NpyReaderTriples ==
  last.op = "read_npy" =>
    /\ last.exc = "none"
    /\ npy_reader(file, 0, last.ret) = ExpectedTriples(file, last.ret)
    /\ (Symmetric(file) /\ ~directed) =>
         /\ read_edglst([exc |-> "none", g |-> EmptyGraph], EdgeListOf(file),
                        last.ret).exc = "none"
         /\ idmap.lst =
              read_edglst([exc |-> "none", g |-> EmptyGraph], EdgeListOf(file),
                          last.ret).g.idmap.lst
         /\ SameRows(edge_data,
                     read_edglst([exc |-> "none", g |-> EmptyGraph],
                                 EdgeListOf(file), last.ret).g.edge)

(***************************************************************************)
(* graph[key], construct_adj_vec and to_adjmat                             *)
(***************************************************************************)
\* The loop fvec[nbr_idx] = weight over the items of a row, from item p on.
RECURSIVE scatter(_, _, _)
scatter(fvec, row, p) ==
  IF p > Len(row) THEN [exc |-> "none", ret |-> fvec]
  ELSE IF row[p].k + 1 \notin DOMAIN fvec THEN [exc |-> "IndexError", ret |-> fvec]
  ELSE scatter([fvec EXCEPT ![row[p].k + 1] = row[p].v], row, p + 1)

\* construct_adj_vec(src_idx) for an int src_idx.
construct_adj_vec(g, src_idx) ==
  IF src_idx + 1 \notin DOMAIN g.edge THEN [exc |-> "IndexError", ret |-> <<>>]
  ELSE scatter([j \in 1 .. size(g.idmap) |-> 0], g.edge[src_idx + 1], 1)

\* The list comprehension of __getitem__ over the indices of a list of keys.
RECURSIVE adj_vecs(_, _)
adj_vecs(g, keys) ==
  IF keys = <<>> THEN [exc |-> "none", ret |-> <<>>]
  ELSE IF ~contains(g.idmap, Head(keys)) THEN [exc |-> "KeyError", ret |-> <<>>]
  ELSE IF construct_adj_vec(g, g.idmap.data[Head(keys).s]).exc # "none"
    THEN construct_adj_vec(g, g.idmap.data[Head(keys).s])
  ELSE IF adj_vecs(g, Tail(keys)).exc # "none" THEN adj_vecs(g, Tail(keys))
  ELSE [exc |-> "none",
        ret |-> <<construct_adj_vec(g, g.idmap.data[Head(keys).s]).ret>>
                  \o adj_vecs(g, Tail(keys)).ret]

\* graph[key] for one id.
graph_getitem(g, key) ==
  IF getitem(g.idmap, key).exc # "none"
    THEN [exc |-> getitem(g.idmap, key).exc, ret |-> <<>>]
    ELSE construct_adj_vec(g, getitem(g.idmap, key).idx)

\* The loops of to_adjmat over the rows from row number src_node on.
RECURSIVE adjmat_rows(_, _, _)
adjmat_rows(g, src_node, default_val) ==
  IF src_node >= Len(g.edge) THEN [exc |-> "none", ret |-> <<>>]
  ELSE IF src_node >= size(g.idmap) THEN [exc |-> "IndexError", ret |-> <<>>]
  ELSE IF scatter([j \in 1 .. size(g.idmap) |-> default_val],
                  g.edge[src_node + 1], 1).exc # "none"
    THEN [exc |-> "IndexError", ret |-> <<>>]
  ELSE IF adjmat_rows(g, src_node + 1, default_val).exc # "none"
    THEN adjmat_rows(g, src_node + 1, default_val)
  ELSE [exc |-> "none",
        ret |-> <<scatter([j \in 1 .. size(g.idmap) |-> default_val],
                          g.edge[src_node + 1], 1).ret>>
                  \o adjmat_rows(g, src_node + 1, default_val).ret]

\* Mutant of to_adjmat: the matrix is filled with rows and columns exchanged.
to_adjmat_transposed(g, default_val) ==
  IF adjmat_rows(g, 0, default_val).exc # "none" THEN adjmat_rows(g, 0, default_val)
  ELSE [exc |-> "none",
        ret |-> [i \in 1 .. size(g.idmap) |->
                   [j \in 1 .. size(g.idmap) |->
                      adjmat_rows(g, 0, default_val).ret[j][i]]]]

\* to_adjmat(default_val): rows of the matrix np.ones((n, n)) * default_val
\* that have no adjacency row keep the default value.
to_adjmat(g, default_val) ==
  IF adjmat_rows(g, 0, default_val).exc # "none" THEN adjmat_rows(g, 0, default_val)
  ELSE [exc |-> "none",
        ret |-> adjmat_rows(g, 0, default_val).ret
                  \o [i \in 1 .. size(g.idmap) - Len(g.edge) |->
                        [j \in 1 .. size(g.idmap) |-> default_val]]]

\* Lists of one or two ids of the graph.
KeyLists == UNION {[1 .. n -> KnownIDs] : n \in 1 .. 2}

TriplesOf(out, i, j) ==
  {p \in DOMAIN out :
     {idmap.data[out[p].src], idmap.data[out[p].dst]} = {i, j}}

\* C24: on every call edge_gen raises nothing and yields, for an undirected
\* graph, exactly one triple for each unordered pair of connected nodes and,
\* for a directed graph, exactly one triple for each stored entry, each with
\* the stored weight; the weighted writer writes the triples whose weight is
\* greater than cut_threshold and no other.
EdgeEnumeration ==
  /\ edge_gen(graph).exc = "none"
  /\ \A p \in DOMAIN edge_gen(graph).out :
       edge_gen(graph).out[p].weight =
         Entry(edge_data, idmap.data[edge_gen(graph).out[p].src],
               idmap.data[edge_gen(graph).out[p].dst])
  /\ ~directed =>
       /\ Len(edge_gen(graph).out) = Cardinality(UndirectedEdges)
       /\ \A i, j \in Nodes(edge_data) :
            (Has(edge_data[i + 1], j) \/ Has(edge_data[j + 1], i)) =>
              Cardinality(TriplesOf(edge_gen(graph).out, i, j)) = 1
  /\ directed =>
       /\ Len(edge_gen(graph).out) = num_edges(graph)
       /\ \A i, j \in Nodes(edge_data) :
            Has(edge_data[i + 1], j) =>
              \E p \in DOMAIN edge_gen(graph).out :
                /\ idmap.data[edge_gen(graph).out[p].src] = i
                /\ idmap.data[edge_gen(graph).out[p].dst] = j
  /\ weighted =>
       \A cut_threshold \in CutThresholds :
         Len(save(graph, cut_threshold).lines) =
           Cardinality({p \in DOMAIN edge_gen(graph).out :
                          edge_gen(graph).out[p].weight > cut_threshold})

(***************************************************************************)
(* read_cx_stream_file                                                     *)
(* A name is a sequence of tokens, "ncbigene" and ":" being one token each; *)
(* weights are counted in tenths.                                          *)
(***************************************************************************)
\* str.startswith
StartsWith(s, prefix) ==
  Len(s) >= Len(prefix) /\ SubSeq(s, 1, Len(prefix)) = prefix

\* The position of the first ":" of s at or after p, or Len(s) + 1.
RECURSIVE ColonFrom(_, _)
ColonFrom(s, p) ==
  IF p > Len(s) \/ s[p] = ":" THEN p ELSE ColonFrom(s, p + 1)

\* node_name.split(":")[1]
SplitColon1(s) ==
  IF ColonFrom(s, 1) > Len(s) THEN [exc |-> "IndexError", ret |-> <<>>]
  ELSE [exc |-> "none",
        ret |-> SubSeq(s, ColonFrom(s, 1) + 1, ColonFrom(s, ColonFrom(s, 1) + 1) - 1)]

CxPrefix == <<"ncbigene">>

\* The "nodes" aspect: @id 0, 1 and 2 with their names ("r").
CxNodes ==
  {<< [id |-> 0, r |-> <<"ncbigene", ":", "1">>],
      [id |-> 1, r |-> r1],
      [id |-> 2, r |-> <<"uniprot", ":", "b">>] >> :
     r1 \in {<<"ncbigene", ":", "0", "1">>, <<"ncbigene", ":", "a">>}}

\* The "nodeAttributes" aspect.
CxNodeAttributes ==
  << [n |-> "alias", po |-> 0, v |-> << <<"uniprot", ":", "q">>, <<"ncbigene", ":", "a">> >>],
     [n |-> "name", po |-> 1, v |-> << <<"ncbigene", ":", "1">> >>],
     [n |-> "alias", po |-> 2, v |-> << <<"ncbigene", ":", "b">>, <<"ncbigene", ":", "c">> >>] >>

\* The "edges" aspect: up to two records; node 3 is in no node table.
CxEdgeRecords == [s : {0}, t : 0 .. 3, i : {"x", "y"}]

CxEdges == UNION {[1 .. n -> CxEdgeRecords] : n \in 0 .. 2}

\* The "edgeAttributes" aspect: the attribute "w" of edge 1 and of edge 2.
CxEdgeAttributes ==
  {<< [n |-> "w", po |-> 1, v |-> v1], [n |-> "w", po |-> 2, v |-> v2],
      [n |-> "note", po |-> 2, v |-> <<"4">>] >> :
     v1 \in {<<"2">>}, v2 \in {<<"0", ".", "4">>, <<"x">>}}

CxFiles == [nodes : CxNodes, edges : CxEdges, edgeAttributes : CxEdgeAttributes]

\* Lines 423-433: the loop over raw_nodes from node p on; tbl is node_idx_to_id.
RECURSIVE cx_node_table(_, _, _, _)
cx_node_table(nodes, p, node_id_prefix, tbl) ==
  IF p > Len(nodes) THEN [exc |-> "none", tbl |-> tbl]
  ELSE IF node_id_prefix.ty = "NoneType"
    THEN cx_node_table(nodes, p + 1, node_id_prefix, Put(tbl, nodes[p].id, nodes[p].r))
  ELSE IF ~StartsWith(nodes[p].r, node_id_prefix.s)
    THEN cx_node_table(nodes, p + 1, node_id_prefix, tbl)
  ELSE IF SplitColon1(nodes[p].r).exc # "none"
    THEN [exc |-> "IndexError", tbl |-> tbl]
  ELSE cx_node_table(nodes, p + 1, node_id_prefix,
                     Put(tbl, nodes[p].id, SplitColon1(nodes[p].r).ret))

\* Lines 443-446: the first value of an alias that starts with the prefix.
RECURSIVE cx_first_alias(_, _, _)
cx_first_alias(values, q, node_id_prefix) ==
  IF q > Len(values) THEN [exc |-> "none", found |-> FALSE, ret |-> <<>>]
  ELSE IF StartsWith(values[q], node_id_prefix.s)
    THEN [exc |-> SplitColon1(values[q]).exc, found |-> TRUE,
          ret |-> SplitColon1(values[q]).ret]
  ELSE cx_first_alias(values, q + 1, node_id_prefix)

\* Lines 439-446: the loop over nodeAttributes from attribute p on.
RECURSIVE cx_alias_table(_, _, _, _)
cx_alias_table(attrs, p, node_id_prefix, tbl) ==
  IF p > Len(attrs) THEN [exc |-> "none", tbl |-> tbl]
  ELSE IF attrs[p].n # "alias" THEN cx_alias_table(attrs, p + 1, node_id_prefix, tbl)
  ELSE IF cx_first_alias(attrs[p].v, 1, node_id_prefix).exc # "none"
    THEN [exc |-> "IndexError", tbl |-> tbl]
  ELSE cx_alias_table(attrs, p + 1, node_id_prefix,
         IF cx_first_alias(attrs[p].v, 1, node_id_prefix).found
           THEN Put(tbl, attrs[p].po, cx_first_alias(attrs[p].v, 1, node_id_prefix).ret)
           ELSE tbl)

\* Lines 420-446: node_idx_to_id.
cx_load_nodes(cx, node_id_prefix, use_node_alias) ==
  IF ~use_node_alias THEN cx_node_table(cx.nodes, 1, node_id_prefix, <<>>)
  ELSE IF node_id_prefix.ty = "NoneType" THEN [exc |-> "ValueError", tbl |-> <<>>]
  ELSE cx_alias_table(CxNodeAttributes, 1, node_id_prefix, <<>>)

\* A node_id_converter: a callable that knows "1" as "c" and does not know "a".
Converter(j) ==
  IF j = <<"1">> THEN [none |-> FALSE, ret |-> <<"c">>]
  ELSE IF j = <<"a">> THEN [none |-> TRUE, ret |-> <<>>]
  ELSE [none |-> FALSE, ret |-> j]

\* Lines 449-465: node_idx_to_id_converted.
cx_convert(tbl, node_id_converter) ==
  IF node_id_converter = "None" THEN tbl
  ELSE LET kept == SelectSeq(tbl, LAMBDA e : ~Converter(e.v).none)
       IN [p \in DOMAIN kept |-> [k |-> kept[p].k, v |-> Converter(kept[p].v).ret]]

\* Lines 469-478: edge_weight_dict, from attribute p on.
RECURSIVE cx_edge_weights(_, _, _, _)
cx_edge_weights(attrs, p, edge_weight_attr_name, dict) ==
  IF edge_weight_attr_name = "None" \/ p > Len(attrs) THEN dict
  ELSE IF attrs[p].n = edge_weight_attr_name /\ ParseFloat(attrs[p].v).ok
    THEN cx_edge_weights(attrs, p + 1, edge_weight_attr_name,
                         Put(dict, attrs[p].po, Tenths(ParseFloat(attrs[p].v))))
  ELSE cx_edge_weights(attrs, p + 1, edge_weight_attr_name, dict)

\* Lines 497-501: the weight of edge eid.
cx_weight(dict, eid) == IF Has(dict, eid) THEN Get(dict, eid) ELSE One

\* Lines 483-507: the body of the loop over raw_edges; a KeyError of the
\* lookups or of add_edge is caught, what add_edge did before it stays.
cx_edge(outcome, edge, eid, tbl, dict, interaction_types, reduction) ==
  IF ~Has(tbl, edge.s) \/ ~Has(tbl, edge.t) THEN outcome
  ELSE IF interaction_types.ty # "NoneType" /\ edge.i \notin interaction_types.s THEN outcome
  ELSE IF add_edge(outcome.g, PyStr(Get(tbl, edge.s)), PyStr(Get(tbl, edge.t)),
                   cx_weight(dict, eid), reduction).exc = "KeyError"
    THEN [exc |-> "none",
          g |-> add_edge(outcome.g, PyStr(Get(tbl, edge.s)), PyStr(Get(tbl, edge.t)),
                         cx_weight(dict, eid), reduction).g]
  ELSE add_edge(outcome.g, PyStr(Get(tbl, edge.s)), PyStr(Get(tbl, edge.t)),
                cx_weight(dict, eid), reduction)

\* Lines 482-507: the loop over raw_edges from edge p on; the @id of an edge is
\* its position.
RECURSIVE cx_edges(_, _, _, _, _, _, _)
cx_edges(outcome, edges, p, tbl, dict, interaction_types, reduction) ==
  IF p > Len(edges) \/ outcome.exc # "none" THEN outcome
  ELSE cx_edges(cx_edge(outcome, edges[p], p, tbl, dict, interaction_types, reduction),
                edges, p + 1, tbl, dict, interaction_types, reduction)

\* read_cx_stream_file with the arguments of the record a.
read_cx_stream_file(g, cx, a) ==
  IF cx_load_nodes(cx, a.node_id_prefix, a.use_node_alias).exc # "none"
    THEN [exc |-> cx_load_nodes(cx, a.node_id_prefix, a.use_node_alias).exc, g |-> g]
    ELSE cx_edges([exc |-> "none", g |-> g], cx.edges, 1,
                  cx_convert(cx_load_nodes(cx, a.node_id_prefix, a.use_node_alias).tbl,
                             a.node_id_converter),
                  cx_edge_weights(cx.edgeAttributes, 1, a.edge_weight_attr_name, <<>>),
                  a.interaction_types, a.reduction)

CxArguments ==
  [interaction_types : {[ty |-> "NoneType", s |-> {}], [ty |-> "list", s |-> {"x"}]},
   node_id_prefix : {PyNone, PyStr(CxPrefix)},
   edge_weight_attr_name : {"None", "w"},
   reduction : ValidReductions,
   use_node_alias : BOOLEAN,
   node_id_converter : {"None", "Converter"}]

\* from_cx_stream_file(path, directed, self_loops, **kwargs); ret keeps the
\* keyword arguments.
ReadCx(a) ==
  /\ last.op = "init"
  /\ Commit(read_cx_stream_file(graph, file, a).g)
  /\ last' = [op |-> "read_cx", exc |-> read_cx_stream_file(graph, file, a).exc,
               ret |-> a,
               added |-> size(read_cx_stream_file(graph, file, a).g.idmap)]
  /\ UNCHANGED <<config, file, hist, other, lsc, par>>

InitCx ==
  /\ cls = "SparseGraph"
  /\ weighted = TRUE
  /\ directed \in BOOLEAN
  /\ self_loops \in BOOLEAN
  /\ idmap = EmptyIDmap
  /\ edge_data = <<>>
  /\ rev_edge_data = <<>>
  /\ last = NoCall
  /\ file \in CxFiles
  /\ hist = <<>>
  /\ other = NoGraph
  /\ lsc = NoLsc
  /\ par = NoPar

NextCx == \E a \in CxArguments : ReadCx(a)

SpecCx == InitCx /\ [][NextCx]_vars

\* The retained node table of a call: the nodes whose name matched the prefix
\* and whose id the converter knew.
CxTable(cx, a) ==
  cx_convert(cx_load_nodes(cx, a.node_id_prefix, a.use_node_alias).tbl,
             a.node_id_converter)

\* The edge records C25 expects in the graph.
CxQualifies(cx, a, p) ==
  /\ Has(CxTable(cx, a), cx.edges[p].s)
  /\ Has(CxTable(cx, a), cx.edges[p].t)
  /\ (a.interaction_types.ty = "NoneType" \/ cx.edges[p].i \in a.interaction_types.s)

\* The weight of edge record p: its attribute, or the default weight.
CxWeight(cx, a, p) ==
  cx_weight(cx_edge_weights(cx.edgeAttributes, 1, a.edge_weight_attr_name, <<>>), p)

\* The index in the graph of an endpoint (s or t) of an edge record.
CxIndex(cx, a, node) == idmap.data[Canonical(PyStr(Get(CxTable(cx, a), node)))]

\* The qualifying records that write the entry record p writes.
CxDuplicates(cx, a, p) ==
  {q \in DOMAIN cx.edges :
     /\ CxQualifies(cx, a, q)
     /\ \/ /\ Get(CxTable(cx, a), cx.edges[q].s) = Get(CxTable(cx, a), cx.edges[p].s)
           /\ Get(CxTable(cx, a), cx.edges[q].t) = Get(CxTable(cx, a), cx.edges[p].t)
        \/ /\ ~directed
           /\ Get(CxTable(cx, a), cx.edges[q].s) = Get(CxTable(cx, a), cx.edges[p].t)
           /\ Get(CxTable(cx, a), cx.edges[q].t) = Get(CxTable(cx, a), cx.edges[p].s)}

\* The weight the requested reduction leaves of the records dup.
CxReduced(cx, a, dup) ==
  CHOOSE w \in {CxWeight(cx, a, q) : q \in dup} :
    \/ /\ a.reduction = "max"
       /\ \A q \in dup : CxWeight(cx, a, q) <= w
    \/ /\ a.reduction = "min"
       /\ \A q \in dup : CxWeight(cx, a, q) >= w
    \/ /\ a.reduction = "None"
       /\ \E q \in dup : CxWeight(cx, a, q) = w /\ \A q2 \in dup : q2 <= q

\* C25: an edge record is added to the graph iff both its endpoints are in
\* the retained node table and its interaction type is allowed; the other
\* records are skipped without an exception and without a new node; an added
\* edge has the weight of its attribute or the default weight, duplicates
\* reduced as requested.
CxEdgesFiltered ==
  (/\ last.op = "read_cx"
   /\ cx_load_nodes(file, last.ret.node_id_prefix, last.ret.use_node_alias).exc = "none") =>
    /\ last.exc = "none"
    /\ \A k \in DOMAIN idmap.data :
         \E p \in DOMAIN file.edges :
           /\ CxQualifies(file, last.ret, p)
           /\ k \in {Canonical(PyStr(Get(CxTable(file, last.ret), file.edges[p].s))),
                     Canonical(PyStr(Get(CxTable(file, last.ret), file.edges[p].t)))}
    /\ \A p \in DOMAIN file.edges :
         CxQualifies(file, last.ret, p) =>
           /\ Canonical(PyStr(Get(CxTable(file, last.ret), file.edges[p].s)))
                \in DOMAIN idmap.data
           /\ Canonical(PyStr(Get(CxTable(file, last.ret), file.edges[p].t)))
                \in DOMAIN idmap.data
           /\ Entry(edge_data, CxIndex(file, last.ret, file.edges[p].s),
                    CxIndex(file, last.ret, file.edges[p].t))
                = IF ~self_loops /\ CxIndex(file, last.ret, file.edges[p].s)
                                     = CxIndex(file, last.ret, file.edges[p].t)
                    THEN 0
                    ELSE CxReduced(file, last.ret, CxDuplicates(file, last.ret, p))
    /\ num_edges(graph) =
         Cardinality({<<i, j>> \in Nodes(edge_data) \X Nodes(edge_data) :
            \E p \in DOMAIN file.edges :
              /\ CxQualifies(file, last.ret, p)
              /\ (self_loops \/ i # j)
              /\ \/ <<i, j>> = <<CxIndex(file, last.ret, file.edges[p].s),
                                 CxIndex(file, last.ret, file.edges[p].t)>>
                 \/ /\ ~directed
                    /\ <<j, i>> = <<CxIndex(file, last.ret, file.edges[p].s),
                                    CxIndex(file, last.ret, file.edges[p].t)>>})

(***************************************************************************)
(* read_npz with a cut_threshold                                           *)
(***************************************************************************)
\* The cut_threshold arguments tried: None (the default) and 2.0.
NpzCuts == {[ty |-> "NoneType", v |-> 0], [ty |-> "float", v |-> 2]}

\* read_npz(path, cut_threshold): no statement of the body (lines 540-553)
\* reads cut_threshold.
read_npz_cut(g, arch, w, cut_threshold) == read_npz(g, arch, w)

\* C26: after read_npz(path, cut_threshold=t) no stored entry has a weight
\* below t; with cut_threshold=None every edge of the archive is loaded.
NpzThresholdApplied ==
  (last.op = "save_npz" /\ "edge_weight" \in file.names) =>
    \A cut_threshold \in NpzCuts :
      /\ read_npz_cut(new_graph, file, TRUE, cut_threshold).exc = "none"
      /\ IF cut_threshold.ty = "NoneType"
           THEN num_edges(read_npz_cut(new_graph, file, TRUE, cut_threshold).g)
                  = Len(file.edge_index)
           ELSE \A i \in Nodes(read_npz_cut(new_graph, file, TRUE, cut_threshold).g.edge) :
                  \A j \in Keys(read_npz_cut(new_graph, file, TRUE,
                                             cut_threshold).g.edge[i + 1]) :
                    Get(read_npz_cut(new_graph, file, TRUE, cut_threshold).g.edge[i + 1], j)
                      >= cut_threshold.v

(***************************************************************************)
(* AdjLst (Graph.py): addID and addEdge                                    *)
(***************************************************************************)
\* AdjLst.addID
adjlst_addID(g, ID) ==
  IF addID(g.idmap, ID).exc # "none" THEN [exc |-> addID(g.idmap, ID).exc, g |-> g]
  ELSE [exc |-> "none",
        g |-> [g EXCEPT !.idmap = addID(g.idmap, ID).m, !.edge = Append(g.edge, <<>>)]]

\* Lines 48-51 for one ID: it is added when it is not in the IDmap.
adjlst_ensure(outcome, ID) ==
  IF outcome.exc # "none" \/ contains(outcome.g.idmap, ID) THEN outcome
  ELSE adjlst_addID(outcome.g, ID)

\* Lines 52-62: the try block; the entry is written in the except branch only,
\* where a KeyError of the IDmap is raised again.
adjlst_store(outcome, ID1, ID2, weight) ==
  IF outcome.exc # "none" THEN outcome
  ELSE IF getitem(outcome.g.idmap, ID1).exc = "TypeError"
            \/ (getitem(outcome.g.idmap, ID1).exc = "none"
                /\ getitem(outcome.g.idmap, ID2).exc = "TypeError")
    THEN [exc |-> "TypeError", g |-> outcome.g]
  ELSE IF getitem(outcome.g.idmap, ID1).exc = "KeyError"
            \/ getitem(outcome.g.idmap, ID2).exc = "KeyError"
    THEN [exc |-> "KeyError", g |-> outcome.g]
  ELSE IF Has(outcome.g.edge[getitem(outcome.g.idmap, ID1).idx + 1],
              getitem(outcome.g.idmap, ID2).idx)
    THEN outcome
  ELSE [exc |-> "none",
        g |-> [outcome.g EXCEPT !.edge =
                 IF directed
                   THEN [@ EXCEPT ![getitem(outcome.g.idmap, ID1).idx + 1] =
                           Put(@, getitem(outcome.g.idmap, ID2).idx, weight)]
                   ELSE [[@ EXCEPT ![getitem(outcome.g.idmap, ID1).idx + 1] =
                            Put(@, getitem(outcome.g.idmap, ID2).idx, weight)]
                           EXCEPT ![getitem(outcome.g.idmap, ID2).idx + 1] =
                            Put(@, getitem(outcome.g.idmap, ID1).idx, weight)]]]

\* AdjLst.addEdge
adjlst_addEdge(g, ID1, ID2, weight) ==
  adjlst_store(adjlst_ensure(adjlst_ensure([exc |-> "none", g |-> g], ID1), ID2),
               ID1, ID2, weight)

AdjLstIDs == {PyStr(<<"a">>), PyStr(<<"1">>), PyStr(<<"1", ".", "0">>)}

\* ret keeps the arguments of the call.
AdjLstAddEdge(ID1, ID2, weight) ==
  /\ Commit(adjlst_addEdge(graph, ID1, ID2, weight).g)
  /\ last' = [op |-> "addEdge", exc |-> adjlst_addEdge(graph, ID1, ID2, weight).exc,
               ret |-> [ID1 |-> ID1, ID2 |-> ID2, weight |-> weight],
               added |-> size(adjlst_addEdge(graph, ID1, ID2, weight).g.idmap)
                           - size(idmap)]
  /\ UNCHANGED <<config, file, hist, other, lsc, par>>

InitAdjLst ==
  /\ cls = "AdjLst"
  /\ weighted \in BOOLEAN
  /\ directed \in BOOLEAN
  /\ self_loops = TRUE
  /\ idmap = EmptyIDmap
  /\ edge_data = <<>>
  /\ rev_edge_data = <<>>
  /\ last = NoCall
  /\ file = <<>>
  /\ hist = <<>>
  /\ other = NoGraph
  /\ lsc = NoLsc
  /\ par = NoPar

NextAdjLst ==
  \E ID1, ID2 \in AdjLstIDs, weight \in Weights : AdjLstAddEdge(ID1, ID2, weight)

SpecAdjLst == InitAdjLst /\ [][NextAdjLst]_vars

\* C27: addEdge on a pair that has an edge of another weight overwrites the
\* stored weight, in both directions for an undirected graph: after a call
\* that raised nothing the stored weight is the weight of that call.
AdjLstLastWriterWins ==
  (last.op = "addEdge" /\ last.exc = "none") =>
    /\ Entry(edge_data, idmap.data[last.ret.ID1.s], idmap.data[last.ret.ID2.s])
         = last.ret.weight
    /\ ~directed =>
         Entry(edge_data, idmap.data[last.ret.ID2.s], idmap.data[last.ret.ID1.s])
           = last.ret.weight

(***************************************************************************)
(* LabelsetCollection: labelsets over a list of entities                   *)
(*                                                                         *)
(* The collection is an IDprop of labelset names with the properties Info  *)
(* and Labelset, and holds a second IDprop, entity, with the property      *)
(* Noccur.  An IDprop is a dict from the IDs, in the order they were       *)
(* added, to their properties; a list argument is its elements (ids) and   *)
(* whether all of them are str (typed).                                    *)
(***************************************************************************)
LabelIDs == {"L1", "L2"}
EntityIDs == {"a", "b", "c"}
LabelInfos == {"None", "info"}

EntityLists ==
  [ids : {<<>>} \cup {<<x>> : x \in EntityIDs}
           \cup {<<x, y>> : x, y \in EntityIDs},
   typed : {TRUE}]
    \cup {[ids |-> <<"a">>, typed |-> FALSE]}

EmptyLsc == [cls |-> "LabelsetCollection", labels |-> <<>>, entity |-> <<>>]

LscOk(c) == [exc |-> "none", c |-> c]
LscRaise(e, c) == [exc |-> e, c |-> c]

\* IDprop.addID(ID, prop): a new ID at the end of the list with the given
\* properties, those not given at a copy of their default value.
idprop_addID(p, ID, prop) == Append(p, [k |-> ID, v |-> prop])

\* IDprop.popID(ID): the ID and its properties leave the list.
idprop_popID(p, ID) == Remove(p, ID)

\* IDprop.update(lst) on the entity list: every ID of lst that is not in
\* the list is added with Noccur at its default.
RECURSIVE idprop_update(_, _, _)
idprop_update(p, ids, i) ==
  IF i > Len(ids) THEN p
  ELSE idprop_update(IF Has(p, ids[i]) THEN p ELSE idprop_addID(p, ids[i], 0),
                     ids, i + 1)

getLabelset(c, labelID) == Get(c.labels, labelID).Labelset
getNoccur(c, ID) == Get(c.entity, ID)

withLabelset(c, labelID, lbset) ==
  [c EXCEPT !.labels =
     Put(c.labels, labelID, [Info |-> Get(c.labels, labelID).Info,
                             Labelset |-> lbset])]

\* One turn of the loop of updateLabelset.
update_entity(c, labelID, ID) ==
  IF ID \in getLabelset(c, labelID)
    THEN [c EXCEPT !.entity = IF Has(c.entity, ID) THEN c.entity
                              ELSE idprop_addID(c.entity, ID, 0)]
    ELSE [withLabelset(c, labelID, getLabelset(c, labelID) \cup {ID})
            EXCEPT !.entity =
              IF Has(c.entity, ID)
                THEN Put(c.entity, ID, getNoccur(c, ID) + 1)
                ELSE idprop_addID(c.entity, ID, 0 + 1)]

RECURSIVE update_entities(_, _, _, _)
update_entities(c, labelID, ids, i) ==
  IF i > Len(ids) THEN c
  ELSE update_entities(update_entity(c, labelID, ids[i]), labelID, ids, i + 1)

updateLabelset(c, lst, labelID) ==
  IF ~lst.typed THEN LscRaise("TypeError", c)
  ELSE IF ~Has(c.labels, labelID) THEN LscRaise("IDNotExistError", c)
  ELSE LscOk(update_entities(c, labelID, lst.ids, 1))

\* One turn of the loop of resetLabelset, with the entity ID decremented and
\* never popped.
reset_entity_decrement_only(entity, ID) ==
  Put(entity, ID, Get(entity, ID) - 1)

\* One turn of the loop of resetLabelset.
reset_entity(entity, ID) ==
  IF Get(entity, ID) = 1
    THEN idprop_popID(entity, ID)
    ELSE Put(entity, ID, Get(entity, ID) - 1)

RECURSIVE reset_entities(_, _)
reset_entities(entity, lbset) ==
  IF lbset = {} THEN entity
  ELSE reset_entities(reset_entity(entity, CHOOSE ID \in lbset : TRUE),
                      lbset \ {CHOOSE ID \in lbset : TRUE})

resetLabelset(c, labelID) ==
  IF ~Has(c.labels, labelID) THEN LscRaise("IDNotExistError", c)
  ELSE LscOk([withLabelset(c, labelID, {})
                EXCEPT !.entity = reset_entities(c.entity, getLabelset(c, labelID))])

popLabelset(c, labelID) ==
  IF resetLabelset(c, labelID).exc # "none" THEN resetLabelset(c, labelID)
  ELSE LscOk([resetLabelset(c, labelID).c
                EXCEPT !.labels = idprop_popID(@, labelID)])

addLabelset(c, lst, labelID, labelInfo) ==
  IF Has(c.labels, labelID) THEN LscRaise("IDExistsError", c)
  ELSE IF ~lst.typed
    THEN LscRaise("TypeError",
                  [c EXCEPT !.labels =
                     idprop_popID(idprop_addID(c.labels, labelID,
                                               [Info |-> "NA", Labelset |-> {}]),
                                  labelID)])
  ELSE updateLabelset(
         [c EXCEPT !.labels =
                     idprop_addID(c.labels, labelID,
                                  [Info |-> IF labelInfo = "None" THEN "NA"
                                            ELSE labelInfo,
                                   Labelset |-> {}]),
                   !.entity = idprop_update(c.entity, lst.ids, 1)],
         lst, labelID)

LscCommit(op, r) ==
  /\ lsc' = r.c
  /\ last' = [op |-> op, exc |-> r.exc, ret |-> 0,
              added |-> Len(r.c.entity) - Len(lsc.entity)]
  /\ UNCHANGED <<config, idmap, edge_data, rev_edge_data, file, hist, other, par>>

AddLabelset(lst, labelID, labelInfo) ==
  LscCommit("addLabelset", addLabelset(lsc, lst, labelID, labelInfo))

UpdateLabelset(lst, labelID) ==
  LscCommit("updateLabelset", updateLabelset(lsc, lst, labelID))

ResetLabelset(labelID) ==
  LscCommit("resetLabelset", resetLabelset(lsc, labelID))

PopLabelset(labelID) ==
  LscCommit("popLabelset", popLabelset(lsc, labelID))

InitLsc ==
  /\ cls = "none"
  /\ weighted = FALSE
  /\ directed = FALSE
  /\ self_loops = FALSE
  /\ idmap = EmptyIDmap
  /\ edge_data = <<>>
  /\ rev_edge_data = <<>>
  /\ last = NoCall
  /\ file = <<>>
  /\ hist = <<>>
  /\ other = NoGraph
  /\ lsc = EmptyLsc
  /\ par = NoPar

NextLsc ==
  \/ \E lst \in EntityLists, labelID \in LabelIDs, labelInfo \in LabelInfos :
       AddLabelset(lst, labelID, labelInfo)
  \/ \E lst \in EntityLists, labelID \in LabelIDs : UpdateLabelset(lst, labelID)
  \/ \E labelID \in LabelIDs : ResetLabelset(labelID)
  \/ \E labelID \in LabelIDs : PopLabelset(labelID)

SpecLsc == InitLsc /\ [][NextLsc]_vars

\* The labelsets of the collection that contain the entity ID.
LabelsetsWith(ID) ==
  {labelID \in Keys(lsc.labels) : ID \in getLabelset(lsc, labelID)}

MaxJobs == 4
MaxNJobs == 3

JobIDs == 0 .. MaxJobs - 1

JobMsg(job_id) == [ty |-> "int", v |-> job_id]
NoneMsg == [ty |-> "NoneType", v |-> 0]

\* func(self.iter_obj[job_id], **kwargs) when it returns
Result(job_id) == [of |-> job_id]

Unborn == [pc |-> "unborn", worker_id |-> NoneMsg, job_id |-> NoneMsg]

NewRun(N, n_jobs, fails) ==
  [pc |-> IF n_jobs > 1 THEN "dispatch" ELSE "serial",
   N |-> N, n_jobs |-> n_jobs, fails |-> fails,
   job |-> 0, k |-> 0, pend |-> <<>>,
   w |-> [i \in JobIDs |-> Unborn],
   pipe |-> [i \in JobIDs |-> <<>>],
   q |-> <<>>, out |-> <<>>,
   ran |-> [i \in JobIDs |-> 0],
   joined |-> {}]

\* the keys of the dict p
Workers(r) == {i \in JobIDs : r.w[i].pc # "unborn"}

\* len(p) < n_jobs, with <= for <
has_room_one_more(r) == Cardinality(Workers(r)) <= r.n_jobs

\* len(p) < n_jobs
has_room(r) == Cardinality(Workers(r)) < r.n_jobs

ParStep(r) ==
  /\ par' = r
  /\ UNCHANGED <<config, idmap, edge_data, rev_edge_data, last, file, hist,
                 other, lsc>>

\* Parent, first loop with room in the pool: a new pipe and a new daemon
\* process for the job, which is sent its job_id.
StartWorker ==
  /\ par.pc = "dispatch"
  /\ par.job < par.N
  /\ has_room(par)
  /\ ParStep([par EXCEPT
       !.w[par.job] = [pc |-> "recv", worker_id |-> NoneMsg, job_id |-> NoneMsg],
       !.pipe[par.job] = <<JobMsg(par.job)>>,
       !.job = @ + 1])

\* Parent, first loop with a full pool: q.get() blocks until a result is in
\* the queue; the job goes to the worker that produced the result, and the
\* result is yielded.
Dispatch ==
  /\ par.pc = "dispatch"
  /\ par.job < par.N
  /\ ~has_room(par)
  /\ par.q # <<>>
  /\ ParStep([par EXCEPT
       !.q = Tail(@),
       !.pipe[Head(par.q).worker_id] = Append(@, JobMsg(par.job)),
       !.out = Append(@, Head(par.q).result),
       !.job = @ + 1])

\* Parent: the first loop is over.
EndDispatch ==
  /\ par.pc = "dispatch"
  /\ par.job = par.N
  /\ ParStep([par EXCEPT !.pc = "collect"])

\* Parent, second loop: q.get() blocks until a result is in the queue; the
\* worker that produced it is sent None.
Collect ==
  /\ par.pc = "collect"
  /\ par.k < Cardinality(Workers(par))
  /\ par.q # <<>>
  /\ ParStep([par EXCEPT
       !.q = Tail(@),
       !.pipe[Head(par.q).worker_id] = Append(@, NoneMsg),
       !.pend = <<Head(par.q)>>,
       !.pc = "join"])

\* Parent, second loop: join() blocks until the worker process has ended;
\* then the result is yielded.
Join ==
  /\ par.pc = "join"
  /\ par.w[par.pend[1].worker_id].pc \in {"exited", "dead"}
  /\ ParStep([par EXCEPT
       !.joined = @ \cup {par.pend[1].worker_id},
       !.out = Append(@, par.pend[1].result),
       !.pend = <<>>,
       !.k = @ + 1,
       !.pc = "collect"])

\* Parent: the second loop is over and the generator is exhausted.
EndCollect ==
  /\ par.pc = "collect"
  /\ par.k = Cardinality(Workers(par))
  /\ ParStep([par EXCEPT !.pc = "done"])

\* Parent with n_jobs = 1: the jobs in the order of iter_obj, in the parent
\* itself; an exception of func leaves the generator.
Serial ==
  /\ par.pc = "serial"
  /\ par.job < par.N
  /\ ParStep(IF par.job \in par.fails
               THEN [par EXCEPT !.ran[par.job] = @ + 1, !.pc = "error"]
               ELSE [par EXCEPT !.ran[par.job] = @ + 1,
                                !.out = Append(@, Result(par.job)),
                                !.job = @ + 1])

EndSerial ==
  /\ par.pc = "serial"
  /\ par.job = par.N
  /\ ParStep([par EXCEPT !.pc = "done"])

\* Worker: conn.recv() blocks until the parent sent something.  The first
\* thing received is the worker_id as well as the first job_id; None ends
\* the loop, the connection and the process.
WorkerRecv(i) ==
  /\ par.w[i].pc = "recv"
  /\ par.pipe[i] # <<>>
  /\ ParStep([par EXCEPT
       !.pipe[i] = Tail(@),
       !.w[i] = [pc |-> IF Head(par.pipe[i]) = NoneMsg THEN "exited" ELSE "run",
                 worker_id |-> IF par.w[i].worker_id = NoneMsg
                                 THEN Head(par.pipe[i])
                                 ELSE par.w[i].worker_id,
                 job_id |-> Head(par.pipe[i])]])

\* Worker: func returns and (worker_id, result) is put on the queue.
WorkerRun(i) ==
  /\ par.w[i].pc = "run"
  /\ par.w[i].job_id.v \notin par.fails
  /\ ParStep([par EXCEPT
       !.ran[par.w[i].job_id.v] = @ + 1,
       !.q = Append(@, [worker_id |-> par.w[i].worker_id.v,
                        result |-> Result(par.w[i].job_id.v)]),
       !.w[i].pc = "recv"])

\* Worker: func raises; nothing catches the exception in worker(), and the
\* process ends without a put.
WorkerRaise(i) ==
  /\ par.w[i].pc = "run"
  /\ par.w[i].job_id.v \in par.fails
  /\ ParStep([par EXCEPT
       !.ran[par.w[i].job_id.v] = @ + 1,
       !.w[i].pc = "dead"])

InitPar ==
  /\ cls = "none"
  /\ weighted = FALSE
  /\ directed = FALSE
  /\ self_loops = FALSE
  /\ idmap = EmptyIDmap
  /\ edge_data = <<>>
  /\ rev_edge_data = <<>>
  /\ last = NoCall
  /\ file = <<>>
  /\ hist = <<>>
  /\ other = NoGraph
  /\ lsc = NoLsc
  /\ \E N \in 0 .. MaxJobs, n_jobs \in 1 .. MaxNJobs :
       \E fails \in SUBSET (0 .. N - 1) : par = NewRun(N, n_jobs, fails)

NextPar ==
  \/ StartWorker
  \/ Dispatch
  \/ EndDispatch
  \/ Collect
  \/ Join
  \/ EndCollect
  \/ Serial
  \/ EndSerial
  \/ \E i \in JobIDs : WorkerRecv(i)
  \/ \E i \in JobIDs : WorkerRun(i)
  \/ \E i \in JobIDs : WorkerRaise(i)

SpecPar == InitPar /\ [][NextPar]_vars

\* Every step of the parent and of a worker process that can be taken is
\* taken at some time: the processes are scheduled by the operating system.
SpecParFair == SpecPar /\ WF_vars(NextPar)

Min(a, b) == IF a < b THEN a ELSE b

\* The jobs of worker i that the parent has handed out and whose result it
\* has not taken from the queue yet.
Outstanding(i) ==
  Cardinality({n \in DOMAIN par.pipe[i] : par.pipe[i][n] # NoneMsg})
    + (IF par.w[i].pc = "run" THEN 1 ELSE 0)
    + Cardinality({n \in DOMAIN par.q : par.q[n].worker_id = i})

\* C29: with a func that returns normally, under every interleaving of the
\* parent and the workers: at most min(n_jobs, N) workers are started, a
\* worker has at most one job outstanding, no job is executed twice and no
\* result is yielded twice, the parent is never blocked for ever (a step of
\* the parent or of a worker is possible until the generator is exhausted),
\* and when the generator is exhausted it has yielded exactly N results, one
\* of every job, every job was executed exactly once, and every worker has
\* received None and was joined; with n_jobs = 1 the results are in the
\* order of the input.
ParallelMapComplete ==
  par.fails = {} =>
    /\ par.n_jobs > 1 =>
         /\ Cardinality(Workers(par)) <= Min(par.n_jobs, par.N)
         /\ \A i \in JobIDs : Outstanding(i) <= 1
    /\ \A job_id \in JobIDs : par.ran[job_id] <= 1
    /\ \A m, n \in DOMAIN par.out : m # n => par.out[m] # par.out[n]
    /\ par.pc # "done" => ENABLED NextPar
    /\ par.pc = "done" =>
         /\ Len(par.out) = par.N
         /\ {par.out[n] : n \in DOMAIN par.out} = {Result(j) : j \in 0 .. par.N - 1}
         /\ \A job_id \in JobIDs : par.ran[job_id] = (IF job_id < par.N THEN 1 ELSE 0)
         /\ \A i \in Workers(par) : par.w[i].pc = "exited" /\ i \in par.joined
         /\ par.q = <<>> /\ \A i \in JobIDs : par.pipe[i] = <<>>
    /\ par.n_jobs = 1 => \A n \in DOMAIN par.out : par.out[n] = Result(n - 1)

\* A run with more jobs than workers is exhausted, and its results came in
\* another order than the jobs.
ParallelMapCompleteWitness ==
  /\ par.pc = "done"
  /\ par.fails = {}
  /\ par.n_jobs > 1
  /\ par.N > par.n_jobs
  /\ \E n \in DOMAIN par.out : par.out[n] # Result(n - 1)

\* The generator has ended: it is exhausted, or an exception left it.
Ended == par.pc \in {"done", "error"}

\* C30: with n_jobs > 1, once func has raised in a worker the parent
\* generator still ends, with the end of the iteration or with an error; it
\* does not wait for ever on the result queue.
TerminatesAfterRaise ==
  (par.n_jobs > 1 /\ \E i \in JobIDs : par.w[i].pc = "dead") ~> Ended

====
